---- MODULE Spec2Model ----
(***************************************************************************)
(* A model of the data-quality-check validation server                     *)
(* (data-quality-server/src/handlers.rs, json_validation.rs,               *)
(* protobuf_descriptors.rs) and of the reflective binder                   *)
(* (dynamic-message/src/lib.rs).                                           *)
(*                                                                         *)
(* Spec      the two HTTP handlers running concurrently over the shared    *)
(*           semaphore and the RwLock-protected descriptor map.            *)
(* BindSpec  populate_dynamic_message applied to bounded JSON inputs.      *)
(***************************************************************************)
EXTENDS Integers, Sequences, FiniteSets, TLC

(***************************************************************************)
(* Numbers.  serde_json::Number holds PosInt(u64), NegInt(i64) or          *)
(* Float(f64).  A 64-bit pattern is kept as four 16-bit limbs, least       *)
(* significant first, so that 2^31, 2^32, 2^63 are exact.                  *)
(***************************************************************************)
LimbBase == 2^16
HalfLimb == 2^15
LimbMax == LimbBase - 1

PosInt(w) == [k |-> "PosInt", w |-> w]
NegInt(w) == [k |-> "NegInt", w |-> w]
Float(f) == [k |-> "Float", f |-> f]

\* Number::as_i64: PosInt(n) only when n <= i64::MAX, NegInt(n) always, Float never.
as_i64(n) ==
    CASE n.k = "PosInt" -> IF n.w[4] < HalfLimb THEN [some |-> TRUE, w |-> n.w]
                                                ELSE [some |-> FALSE]
      [] n.k = "NegInt" -> [some |-> TRUE, w |-> n.w]
      [] OTHER -> [some |-> FALSE]

\* A conversion that casts a negative integer instead of refusing it.
as_u64_cast(n) ==
    IF n.k \in {"PosInt", "NegInt"} THEN [some |-> TRUE, w |-> n.w] ELSE [some |-> FALSE]

\* Number::as_u64: PosInt(n) only.
as_u64(n) ==
    IF n.k = "PosInt" THEN [some |-> TRUE, w |-> n.w] ELSE [some |-> FALSE]

\* Number::as_f64: every number converts.
as_f64(n) == [some |-> TRUE, f |-> n]

\* `int_value as i32`: keeps the low 32 bits, read as two's complement.
Wrap_as_i32(w) ==
    IF w[2] >= HalfLimb THEN (w[2] - LimbBase) * LimbBase + w[1]
                        ELSE w[2] * LimbBase + w[1]

\* `int_value as u32`: keeps the low 32 bits (two limbs).
Wrap_as_u32(w) == <<w[1], w[2]>>

(***************************************************************************)
(* JSON values (serde_json::Value).  String values are sequences of code   *)
(* points; object keys are names.                                          *)
(***************************************************************************)
JNull == [t |-> "null"]
JBool(b) == [t |-> "bool", v |-> b]
JNum(n) == [t |-> "num", v |-> n]
JStr(s) == [t |-> "str", v |-> s]
JArr(s) == [t |-> "arr", v |-> s]
JObj(f) == [t |-> "obj", v |-> f]

EmptyMap == [x \in {} |-> 0]
Put(f, k, v) == [x \in (DOMAIN f) \cup {k} |-> IF x = k THEN v ELSE f[x]]

\* `let x = v; <rest>`: v is computed once and the rest of the block, the
\* operator argument ^#, reads it as x.
Bind(v, _ ^#) == CHOOSE y \in {x^# : x \in {v}} : TRUE

\* A 64-bit pattern is a JSON integer outside [-2^31, 2^31-1].
IsInt(jv) == jv.t = "num" /\ jv.v.k \in {"PosInt", "NegInt"}
InI32Range(n) ==
    \/ n.k = "PosInt" /\ n.w[3] = 0 /\ n.w[4] = 0 /\ n.w[2] < HalfLimb
    \/ n.k = "NegInt" /\ n.w[3] = LimbMax /\ n.w[4] = LimbMax /\ n.w[2] >= HalfLimb
InU32Range(n) == n.k = "PosInt" /\ n.w[3] = 0 /\ n.w[4] = 0
IsNegative(n) == n.k = "NegInt"

(***************************************************************************)
(* Descriptors.  A field descriptor carries its kind, its cardinality and, *)
(* for Enum and Message kinds, the name of the referenced descriptor.      *)
(***************************************************************************)
Fd(kind) == [kind |-> kind, card |-> "single", ref |-> ""]
FdRef(kind, ref) == [kind |-> kind, card |-> "single", ref |-> ref]
FdList(kind) == [kind |-> kind, card |-> "list", ref |-> ""]
FdMap(entry) == [kind |-> "Message", card |-> "map", ref |-> entry]

\* Code points of the enum value names RED and GREEN.
NameRED == <<82, 69, 68>>
NameGREEN == <<71, 82, 69, 69, 78>>

EnumDescriptors ==
    [e \in {"Color"} |-> [n \in {NameRED, NameGREEN} |-> IF n = NameRED THEN 0 ELSE 1]]

\* message MyMessage { string key1; int32 key2; bool key3; } (tests/example.pb)
MyMessageFields ==
    [f \in {"key1", "key2", "key3"} |->
        CASE f = "key1" -> Fd("String")
          [] f = "key2" -> Fd("Int32")
          [] f = "key3" -> Fd("Bool")]

\* A message with one field of every kind, a repeated field and a map field.
ScalarKindOf ==
    [f \in {"f_double", "f_float", "f_int32", "f_sint32", "f_sfixed32",
            "f_int64", "f_sint64", "f_sfixed64", "f_uint32", "f_fixed32",
            "f_uint64", "f_fixed64", "f_bool", "f_string", "f_bytes"} |->
        CASE f = "f_double" -> "Double"
          [] f = "f_float" -> "Float"
          [] f = "f_int32" -> "Int32"
          [] f = "f_sint32" -> "Sint32"
          [] f = "f_sfixed32" -> "Sfixed32"
          [] f = "f_int64" -> "Int64"
          [] f = "f_sint64" -> "Sint64"
          [] f = "f_sfixed64" -> "Sfixed64"
          [] f = "f_uint32" -> "Uint32"
          [] f = "f_fixed32" -> "Fixed32"
          [] f = "f_uint64" -> "Uint64"
          [] f = "f_fixed64" -> "Fixed64"
          [] f = "f_bool" -> "Bool"
          [] f = "f_string" -> "String"
          [] f = "f_bytes" -> "Bytes"]

AllKindsFields ==
    [f \in (DOMAIN ScalarKindOf) \cup {"f_enum", "f_msg", "f_rep", "f_map"} |->
        CASE f = "f_enum" -> FdRef("Enum", "Color")
          [] f = "f_msg" -> FdRef("Message", "MyMessage")
          [] f = "f_rep" -> FdList("String")
          [] f = "f_map" -> FdMap("MapEntry")
          [] OTHER -> Fd(ScalarKindOf[f])]

\* The synthetic entry message of map<string, int32>.
MapEntryFields ==
    [f \in {"key", "value"} |-> IF f = "key" THEN Fd("String") ELSE Fd("Int32")]

MessageDescriptors ==
    [m \in {"MyMessage", "AllKinds", "MapEntry"} |->
        [name |-> m,
         fields |-> CASE m = "MyMessage" -> MyMessageFields
                      [] m = "AllKinds" -> AllKindsFields
                      [] m = "MapEntry" -> MapEntryFields]]

\* MessageDescriptor::get_field_by_name
get_field_by_name(md, name) ==
    IF name \in DOMAIN md.fields THEN [some |-> TRUE, fd |-> md.fields[name]]
                                 ELSE [some |-> FALSE]

\* EnumDescriptor::get_value_by_name
get_value_by_name(ed, name) ==
    IF name \in DOMAIN ed THEN [some |-> TRUE, number |-> ed[name]]
                          ELSE [some |-> FALSE]

(***************************************************************************)
(* prost_reflect::Value and its validity against a field.                  *)
(***************************************************************************)
PV(t, v) == [t |-> t, v |-> v]

\* Value::is_valid: the value's variant must be the one of the kind.
is_valid(value, fd) ==
    \/ value.t = "Bool" /\ fd.kind = "Bool"
    \/ value.t = "I32" /\ fd.kind \in {"Int32", "Sint32", "Sfixed32"}
    \/ value.t = "I64" /\ fd.kind \in {"Int64", "Sint64", "Sfixed64"}
    \/ value.t = "U32" /\ fd.kind \in {"Uint32", "Fixed32"}
    \/ value.t = "U64" /\ fd.kind \in {"Uint64", "Fixed64"}
    \/ value.t = "F32" /\ fd.kind = "Float"
    \/ value.t = "F64" /\ fd.kind = "Double"
    \/ value.t = "String" /\ fd.kind = "String"
    \/ value.t = "Bytes" /\ fd.kind = "Bytes"
    \/ value.t = "EnumNumber" /\ fd.kind = "Enum"
    \/ value.t = "Message" /\ fd.kind = "Message" /\ value.v.desc = fd.ref

\* Value::is_valid_for_field: Value::List is valid for a list field and
\* Value::Map for a map field (the binder builds neither); every other
\* value is valid when its variant is the one of the field's kind, whatever
\* the field's cardinality.
is_valid_for_field(value, fd) ==
    CASE value.t = "List" /\ fd.card = "list" -> TRUE
      [] value.t = "Map" /\ fd.card = "map" -> TRUE
      [] OTHER -> is_valid(value, fd)

\* str::as_bytes: the UTF-8 encoding of the code points (up to U+07FF).
RECURSIVE as_bytes(_)
as_bytes(s) ==
    IF s = <<>> THEN <<>>
    ELSE LET c == Head(s)
         IN (IF c < 128 THEN <<c>>
                        ELSE <<192 + (c \div 64), 128 + (c % 64)>>) \o as_bytes(Tail(s))

DynamicMessageNew(md) == [desc |-> md.name, fields |-> EmptyMap]
set_field_by_name(dm, name, value) == [dm EXCEPT !.fields = Put(dm.fields, name, value)]

Ok(dm) == [ok |-> TRUE, dm |-> dm, err |-> ""]
Err(dm, e) == [ok |-> FALSE, dm |-> dm, err |-> e]

\* serde_json::Value accessors used by the binder.
value_as_i64(jv) == IF jv.t = "num" THEN as_i64(jv.v) ELSE [some |-> FALSE]
value_as_u64(jv) == IF jv.t = "num" THEN as_u64(jv.v) ELSE [some |-> FALSE]
value_as_f64(jv) == IF jv.t = "num" THEN as_f64(jv.v) ELSE [some |-> FALSE]
value_as_bool(jv) == IF jv.t = "bool" THEN [some |-> TRUE, b |-> jv.v] ELSE [some |-> FALSE]
\* An accessor that reads every non-string value as the empty string.
value_as_str_lossy(jv) == [some |-> TRUE, s |-> IF jv.t = "str" THEN jv.v ELSE <<>>]
value_as_str(jv) == IF jv.t = "str" THEN [some |-> TRUE, s |-> jv.v] ELSE [some |-> FALSE]
value_as_object(jv) == IF jv.t = "obj" THEN [some |-> TRUE, m |-> jv.v] ELSE [some |-> FALSE]

\* serde_json::Map iterates in ascending key order (BTreeMap).
KeyOrder ==
    <<"f_bool", "f_bytes", "f_double", "f_enum", "f_fixed32", "f_fixed64",
      "f_float", "f_int32", "f_int64", "f_map", "f_msg", "f_rep", "f_sfixed32",
      "f_sfixed64", "f_sint32", "f_sint64", "f_string", "f_uint32", "f_uint64",
      "key", "key1", "key2", "key3", "nope", "value">>

InKeys(S, k) == k \in S
MapIter(map) == SelectSeq(KeyOrder, LAMBDA k : InKeys(DOMAIN map, k))

(***************************************************************************)
(* populate_dynamic_message (dynamic-message/src/lib.rs).                  *)
(***************************************************************************)
\* The typed value each scalar kind's arm builds, when the JSON accessor
\* returns Some.  The 32-bit arms narrow with `as`.
ScalarValue(fd, field_value) ==
    CASE fd.kind \in {"Double", "Float"} ->
            LET a == value_as_f64(field_value)
            IN IF a.some THEN [some |-> TRUE, v |-> PV("F64", a.f)] ELSE [some |-> FALSE]
      [] fd.kind \in {"Int32", "Sint32", "Sfixed32"} ->
            LET a == value_as_i64(field_value)
            IN IF a.some THEN [some |-> TRUE, v |-> PV("I32", Wrap_as_i32(a.w))]
                         ELSE [some |-> FALSE]
      [] fd.kind \in {"Int64", "Sint64", "Sfixed64"} ->
            LET a == value_as_i64(field_value)
            IN IF a.some THEN [some |-> TRUE, v |-> PV("I64", a.w)] ELSE [some |-> FALSE]
      [] fd.kind \in {"Uint32", "Fixed32"} ->
            LET a == value_as_u64(field_value)
            IN IF a.some THEN [some |-> TRUE, v |-> PV("U32", Wrap_as_u32(a.w))]
                         ELSE [some |-> FALSE]
      [] fd.kind \in {"Uint64", "Fixed64"} ->
            LET a == value_as_u64(field_value)
            IN IF a.some THEN [some |-> TRUE, v |-> PV("U64", a.w)] ELSE [some |-> FALSE]
      [] fd.kind = "Bool" ->
            LET a == value_as_bool(field_value)
            IN IF a.some THEN [some |-> TRUE, v |-> PV("Bool", a.b)] ELSE [some |-> FALSE]
      [] fd.kind = "String" ->
            LET a == value_as_str(field_value)
            IN IF a.some THEN [some |-> TRUE, v |-> PV("String", a.s)] ELSE [some |-> FALSE]
      [] fd.kind = "Bytes" ->
            LET a == value_as_str(field_value)
            IN IF a.some THEN [some |-> TRUE, v |-> PV("Bytes", as_bytes(a.s))]
                         ELSE [some |-> FALSE]
      [] fd.kind = "Enum" ->
            LET a == value_as_str(field_value)
            IN IF a.some
               THEN LET e == get_value_by_name(EnumDescriptors[fd.ref], a.s)
                    IN IF e.some THEN [some |-> TRUE, v |-> PV("EnumNumber", e.number)]
                                 ELSE [some |-> FALSE]
               ELSE [some |-> FALSE]

\* An else-arm that skips the unknown key.
FieldSkipped(dm, field_name) == Ok(dm)

\* The else-arm of get_field_by_name (lib.rs:249-251).
FieldNotFound(dm, field_name) == Err(dm, "not found in descriptor")

RECURSIVE populate_dynamic_message(_, _, _)
RECURSIVE PopulateEntries(_, _, _, _)

\* One iteration of the loop over the JSON object's entries.
BindField(dm, md, field_name, field_value) ==
    LET look == get_field_by_name(md, field_name)
    IN IF ~look.some THEN FieldNotFound(dm, field_name)
       ELSE LET fd == look.fd
            IN IF fd.kind = "Message"
               THEN IF value_as_object(field_value).some
                    THEN LET sub == MessageDescriptors[fd.ref]
                             nested == populate_dynamic_message(
                                           DynamicMessageNew(sub), sub, field_value)
                             value == PV("Message", nested.dm)
                         IN IF ~nested.ok THEN Err(dm, nested.err)
                            ELSE IF is_valid_for_field(value, fd)
                                 THEN Ok(set_field_by_name(dm, field_name, value))
                                 ELSE Err(dm, "expects a nested message object")
                    ELSE Err(dm, "expects a nested message object")
               ELSE LET c == ScalarValue(fd, field_value)
                    IN IF c.some /\ is_valid_for_field(c.v, fd)
                       THEN Ok(set_field_by_name(dm, field_name, c.v))
                       ELSE Err(dm, "expects a value of the field's kind")

\* The loop: the first failing entry returns its error.
PopulateEntries(dm, md, map, keys) ==
    IF keys = <<>> THEN Ok(dm)
    ELSE LET r == BindField(dm, md, Head(keys), map[Head(keys)])
         IN IF r.ok THEN PopulateEntries(r.dm, md, map, Tail(keys)) ELSE r

\* A binder that takes a value that is no object as an object without
\* entries.
populate_dynamic_message_any(dm, md, json_value) ==
    IF json_value.t = "obj"
    THEN PopulateEntries(dm, md, json_value.v, MapIter(json_value.v))
    ELSE Ok(dm)

populate_dynamic_message(dm, md, json_value) ==
    IF json_value.t = "obj"
    THEN PopulateEntries(dm, md, json_value.v, MapIter(json_value.v))
    ELSE Err(dm, "Expected a JSON object to populate DynamicMessage")

(***************************************************************************)
(* Descriptor blobs and the descriptor pool (protobuf_descriptors.rs).     *)
(* A blob is the byte content of one store entry.  "fdsMy" holds my.proto  *)
(* (MyMessage); "fdsAll" holds all.proto, which imports my.proto and       *)
(* defines AllKinds; "junk" is no FileDescriptorSet.                       *)
(***************************************************************************)
Blobs == {"fdsMy", "fdsAll", "junk"}

\* prost::Message::decode::<FileDescriptorSet>
DecodeFileDescriptorSet(bytes) ==
    CASE bytes = "fdsMy" ->
            [ok |-> TRUE, file |-> "my.proto", deps |-> {}, msgs |-> {"MyMessage"}]
      [] bytes = "fdsAll" ->
            [ok |-> TRUE, file |-> "all.proto", deps |-> {"my.proto"},
             msgs |-> {"AllKinds", "MapEntry"}]
      [] OTHER -> [ok |-> FALSE]

DescriptorPoolDefault == [files |-> EmptyMap]

\* DescriptorPool::add_file_descriptor_set: a file equal to one already in
\* the pool is skipped, a different file of the same name is refused, and
\* every import must already be in the pool.
add_file_descriptor_set(pool, fds) ==
    IF fds.file \in DOMAIN pool.files
    THEN IF pool.files[fds.file] = fds THEN [ok |-> TRUE, pool |-> pool]
                                       ELSE [ok |-> FALSE, pool |-> pool]
    ELSE IF fds.deps \subseteq DOMAIN pool.files
         THEN [ok |-> TRUE, pool |-> [files |-> Put(pool.files, fds.file, fds)]]
         ELSE [ok |-> FALSE, pool |-> pool]

\* DescriptorPool::get_message_by_name
get_message_by_name(pool, name) ==
    IF \E f \in DOMAIN pool.files : name \in pool.files[f].msgs
    THEN [some |-> TRUE, md |-> MessageDescriptors[name]]
    ELSE [some |-> FALSE]

\* A loop body that skips an entry that fails to decode or to link.
RebuildEntrySkipFailed(pool, file_content) ==
    LET fds == DecodeFileDescriptorSet(file_content)
    IN IF ~fds.ok THEN [ok |-> TRUE, pool |-> pool]
       ELSE [ok |-> TRUE, pool |-> add_file_descriptor_set(pool, fds).pool]

\* The body of the loop of rebuild_descriptor_pool for one map entry.
RebuildEntry(pool, file_content) ==
    LET fds == DecodeFileDescriptorSet(file_content)
    IN IF ~fds.ok THEN [ok |-> FALSE, pool |-> pool]
       ELSE add_file_descriptor_set(pool, fds)

(***************************************************************************)
(* Request payloads.                                                       *)
(***************************************************************************)
\* base64::decode of the file_content strings the model uploads.
base64_decode(s) ==
    CASE s = "ZmRzTXk=" -> [ok |-> TRUE, bytes |-> "fdsMy"]
      [] s = "ZmRzQWxs" -> [ok |-> TRUE, bytes |-> "fdsAll"]
      [] s = "anVuaw==" -> [ok |-> TRUE, bytes |-> "junk"]
      [] OTHER -> [ok |-> FALSE]

FileNames == {"my.pb", "all.pb"}

LoadDescriptorRequest(file_name, content) ==
    [kind |-> "load", file_name |-> file_name, file_content |-> content]

\* The uploads the model issues: a descriptor under each name, bytes that
\* are no descriptor set, and a file_content that is no base64.
LoadDescriptorRequests ==
    { LoadDescriptorRequest("my.pb", "ZmRzTXk="),
      LoadDescriptorRequest("all.pb", "ZmRzQWxs"),
      LoadDescriptorRequest("my.pb", "anVuaw=="),
      LoadDescriptorRequest("all.pb", "%%%") }

None == [some |-> FALSE]
Some(x) == [some |-> TRUE, v |-> x]

Num42 == PosInt(<<42, 0, 0, 0>>)
Num43 == PosInt(<<43, 0, 0, 0>>)
CharsRED == NameRED

ValidationRequest(protobuf, json, json_escaped, field_check, field_name, field_value_check) ==
    [kind |-> "validate", protobuf |-> protobuf, json |-> json,
     json_escaped |-> json_escaped, field_check |-> field_check,
     field_name |-> field_name, field_value_check |-> field_value_check]

ObjKey2(v) == JObj([k \in {"key2"} |-> v])

\* The validations the model issues: one against a message, one without.
ValidationRequests ==
    { ValidationRequest(Some("MyMessage"), ObjKey2(JNum(Num42)), Some(FALSE), None, None, None),
      ValidationRequest(None, JStr(CharsRED), None, Some(TRUE), Some("key2"),
                        Some(JNum(Num43))) }

(***************************************************************************)
(* JSON text.  A text is a sequence of code points.  Value::to_string      *)
(* writes the compact serialization of a value; serde_json::from_str       *)
(* parses a text.                                                          *)
(***************************************************************************)
Chars(s) == [k |-> "chars", s |-> s]

\* The code points of the object keys of the model.
KeyChars(k) ==
    CASE k = "f_bool" -> <<102, 95, 98, 111, 111, 108>>
      [] k = "f_bytes" -> <<102, 95, 98, 121, 116, 101, 115>>
      [] k = "f_double" -> <<102, 95, 100, 111, 117, 98, 108, 101>>
      [] k = "f_enum" -> <<102, 95, 101, 110, 117, 109>>
      [] k = "f_fixed32" -> <<102, 95, 102, 105, 120, 101, 100, 51, 50>>
      [] k = "f_fixed64" -> <<102, 95, 102, 105, 120, 101, 100, 54, 52>>
      [] k = "f_float" -> <<102, 95, 102, 108, 111, 97, 116>>
      [] k = "f_int32" -> <<102, 95, 105, 110, 116, 51, 50>>
      [] k = "f_int64" -> <<102, 95, 105, 110, 116, 54, 52>>
      [] k = "f_map" -> <<102, 95, 109, 97, 112>>
      [] k = "f_msg" -> <<102, 95, 109, 115, 103>>
      [] k = "f_rep" -> <<102, 95, 114, 101, 112>>
      [] k = "f_sfixed32" -> <<102, 95, 115, 102, 105, 120, 101, 100, 51, 50>>
      [] k = "f_sfixed64" -> <<102, 95, 115, 102, 105, 120, 101, 100, 54, 52>>
      [] k = "f_sint32" -> <<102, 95, 115, 105, 110, 116, 51, 50>>
      [] k = "f_sint64" -> <<102, 95, 115, 105, 110, 116, 54, 52>>
      [] k = "f_string" -> <<102, 95, 115, 116, 114, 105, 110, 103>>
      [] k = "f_uint32" -> <<102, 95, 117, 105, 110, 116, 51, 50>>
      [] k = "f_uint64" -> <<102, 95, 117, 105, 110, 116, 54, 52>>
      [] k = "key" -> <<107, 101, 121>>
      [] k = "key1" -> <<107, 101, 121, 49>>
      [] k = "key2" -> <<107, 101, 121, 50>>
      [] k = "key3" -> <<107, 101, 121, 51>>
      [] k = "nope" -> <<110, 111, 112, 101>>
      [] k = "value" -> <<118, 97, 108, 117, 101>>

IsDigit(c) == c >= 48 /\ c <= 57
IsWhitespace(c) == c \in {32, 9, 10, 13}

\* Division of a 64-bit pattern by ten: quotient and remainder.
Div10(w) ==
    LET q4 == w[4] \div 10
        r4 == w[4] % 10
        q3 == (r4 * LimbBase + w[3]) \div 10
        r3 == (r4 * LimbBase + w[3]) % 10
        q2 == (r3 * LimbBase + w[2]) \div 10
        r2 == (r3 * LimbBase + w[2]) % 10
        q1 == (r2 * LimbBase + w[1]) \div 10
        r1 == (r2 * LimbBase + w[1]) % 10
    IN [q |-> <<q1, q2, q3, q4>>, r |-> r1]

\* w * 10 + d, with the carry out of 64 bits.
MulAdd10(w, d) ==
    LET s1 == w[1] * 10 + d
        s2 == w[2] * 10 + (s1 \div LimbBase)
        s3 == w[3] * 10 + (s2 \div LimbBase)
        s4 == w[4] * 10 + (s3 \div LimbBase)
    IN [w |-> <<s1 % LimbBase, s2 % LimbBase, s3 % LimbBase, s4 % LimbBase>>,
        carry |-> s4 \div LimbBase]

\* Two's complement negation of a 64-bit pattern.
Negate(w) ==
    LET s1 == (LimbMax - w[1]) + 1
        s2 == (LimbMax - w[2]) + (s1 \div LimbBase)
        s3 == (LimbMax - w[3]) + (s2 \div LimbBase)
        s4 == (LimbMax - w[4]) + (s3 \div LimbBase)
    IN <<s1 % LimbBase, s2 % LimbBase, s3 % LimbBase, s4 % LimbBase>>

RECURSIVE DecimalDigits(_)
DecimalDigits(w) ==
    IF w = <<0, 0, 0, 0>> THEN <<>>
    ELSE Bind(Div10(w), LAMBDA d : DecimalDigits(d.q) \o <<48 + d.r>>)

\* itoa: the decimal text of an unsigned 64-bit integer.
Decimal(w) == IF w = <<0, 0, 0, 0>> THEN <<48>> ELSE DecimalDigits(w)

\* Number's Display: integers in decimal, a float by its shortest decimal
\* text, which Float carries.
NumberText(n) ==
    CASE n.k = "PosInt" -> Decimal(n.w)
      [] n.k = "NegInt" -> <<45>> \o Decimal(Negate(n.w))
      [] OTHER -> n.f

HexDigit(n) == IF n < 10 THEN 48 + n ELSE 87 + n

\* format_escaped_str: the quote, the backslash and the control characters
\* are escaped, every other code point is written as it is.
EscapeChar(c) ==
    CASE c = 34 -> <<92, 34>>
      [] c = 92 -> <<92, 92>>
      [] c = 8 -> <<92, 98>>
      [] c = 12 -> <<92, 102>>
      [] c = 10 -> <<92, 110>>
      [] c = 13 -> <<92, 114>>
      [] c = 9 -> <<92, 116>>
      [] c < 32 -> <<92, 117, 48, 48, HexDigit(c \div 16), HexDigit(c % 16)>>
      [] OTHER -> <<c>>

RECURSIVE EscapeChars(_)
EscapeChars(s) == IF s = <<>> THEN <<>> ELSE EscapeChar(Head(s)) \o EscapeChars(Tail(s))

StringText(s) == <<34>> \o EscapeChars(s) \o <<34>>

RECURSIVE ValueText(_)
RECURSIVE ElementsText(_)
RECURSIVE MembersText(_, _)

\* The elements of an array, separated by commas.
ElementsText(elems) ==
    IF elems = <<>> THEN <<>>
    ELSE ValueText(Head(elems))
           \o (IF Tail(elems) = <<>> THEN <<>> ELSE <<44>> \o ElementsText(Tail(elems)))

\* The members of an object in the map's iteration order.
MembersText(map, keys) ==
    IF keys = <<>> THEN <<>>
    ELSE StringText(KeyChars(Head(keys))) \o <<58>> \o ValueText(map[Head(keys)])
           \o (IF Tail(keys) = <<>> THEN <<>> ELSE <<44>> \o MembersText(map, Tail(keys)))

\* The compact serialization of a value.
ValueText(jv) ==
    CASE jv.t = "null" -> <<110, 117, 108, 108>>
      [] jv.t = "bool" -> IF jv.v THEN <<116, 114, 117, 101>>
                                  ELSE <<102, 97, 108, 115, 101>>
      [] jv.t = "num" -> NumberText(jv.v)
      [] jv.t = "str" -> StringText(jv.v)
      [] jv.t = "arr" -> <<91>> \o ElementsText(jv.v) \o <<93>>
      [] jv.t = "obj" -> <<123>> \o MembersText(jv.v, MapIter(jv.v)) \o <<125>>

\* Value::to_string
to_string(jv) == Chars(ValueText(jv))

(***************************************************************************)
(* The parser.  Each parsing operator takes the rest of the text and gives *)
(* [ok, v, rest].  Exponents and keys other than the model's names are not *)
(* in the texts of the model and are refused.                              *)
(***************************************************************************)
ParseFail == [ok |-> FALSE, v |-> JNull, rest |-> <<>>]
Parsed(v, rest) == [ok |-> TRUE, v |-> v, rest |-> rest]

RECURSIVE SkipWhitespace(_)
SkipWhitespace(s) ==
    IF s # <<>> /\ IsWhitespace(Head(s)) THEN SkipWhitespace(Tail(s)) ELSE s

StartsWith(s, lit) == Len(s) >= Len(lit) /\ SubSeq(s, 1, Len(lit)) = lit
Drop(s, n) == SubSeq(s, n + 1, Len(s))

\* The leading digits of s.
RECURSIVE TakeDigits(_)
TakeDigits(s) ==
    IF s # <<>> /\ IsDigit(Head(s)) THEN <<Head(s)>> \o TakeDigits(Tail(s)) ELSE <<>>

\* The value of a digit string as a 64-bit pattern; over when it exceeds u64.
RECURSIVE DigitsValue(_, _)
DigitsValue(ds, acc) ==
    IF ds = <<>> THEN [w |-> acc, over |-> FALSE]
    ELSE Bind(MulAdd10(acc, Head(ds) - 48),
              LAMBDA m : IF m.carry > 0 THEN [w |-> acc, over |-> TRUE]
                         ELSE DigitsValue(Tail(ds), m.w))

\* A fraction without its trailing zeros; "0" when nothing is left.
RECURSIVE TrimZeros(_)
TrimZeros(ds) ==
    IF Len(ds) > 1 /\ ds[Len(ds)] = 48 THEN TrimZeros(SubSeq(ds, 1, Len(ds) - 1)) ELSE ds

\* The number made of a sign, integer digits and, when hasFrac, fraction
\* digits: an integer that fits becomes PosInt or NegInt, everything else
\* a float.
NumberOf(neg, int, hasFrac, frac, val) ==
    LET sign == IF neg THEN <<45>> ELSE <<>>
    IN IF hasFrac THEN JNum(Float(sign \o int \o <<46>> \o TrimZeros(frac)))
       ELSE IF val.over THEN JNum(Float(sign \o int \o <<46, 48>>))
       ELSE IF ~neg THEN JNum(PosInt(val.w))
       ELSE IF val.w = <<0, 0, 0, 0>> THEN JNum(Float(<<45, 48, 46, 48>>))
       ELSE IF val.w[4] < HalfLimb \/ val.w = <<0, 0, 0, HalfLimb>>
            THEN JNum(NegInt(Negate(val.w)))
       ELSE JNum(Float(sign \o int \o <<46, 48>>))

\* parse_integer and parse_decimal, on a text whose first character is a
\* minus sign or a digit.
ParseNumber(s) ==
    Bind(Head(s) = 45, LAMBDA neg :
    Bind(IF neg THEN Tail(s) ELSE s, LAMBDA s1 :
    Bind(TakeDigits(s1), LAMBDA int :
    Bind(Drop(s1, Len(int)), LAMBDA s2 :
    Bind(s2 # <<>> /\ Head(s2) = 46, LAMBDA hasFrac :
    Bind(IF hasFrac THEN TakeDigits(Tail(s2)) ELSE <<>>, LAMBDA frac :
    Bind(IF hasFrac THEN Drop(s2, 1 + Len(frac)) ELSE s2, LAMBDA s3 :
        IF int = <<>> \/ (Len(int) > 1 /\ Head(int) = 48) THEN ParseFail
        ELSE IF hasFrac /\ frac = <<>> THEN ParseFail
        ELSE IF s3 # <<>> /\ Head(s3) \in {69, 101} THEN ParseFail
        ELSE Bind(DigitsValue(int, <<0, 0, 0, 0>>), LAMBDA val :
                 Parsed(NumberOf(neg, int, hasFrac, frac, val), s3)))))))))

IsHex(c) == IsDigit(c) \/ (c >= 97 /\ c <= 102) \/ (c >= 65 /\ c <= 70)
HexValue(c) == IF IsDigit(c) THEN c - 48 ELSE IF c >= 97 THEN c - 87 ELSE c - 55

\* parse_escape: the character after a backslash.
ParseEscape(s) ==
    IF s = <<>> THEN ParseFail
    ELSE CASE Head(s) \in {34, 92, 47} -> Parsed(Head(s), Tail(s))
           [] Head(s) = 98 -> Parsed(8, Tail(s))
           [] Head(s) = 102 -> Parsed(12, Tail(s))
           [] Head(s) = 110 -> Parsed(10, Tail(s))
           [] Head(s) = 114 -> Parsed(13, Tail(s))
           [] Head(s) = 116 -> Parsed(9, Tail(s))
           [] Head(s) = 117 ->
                IF Len(s) >= 5 /\ \A i \in 2..5 : IsHex(s[i])
                THEN Parsed(((HexValue(s[2]) * 16 + HexValue(s[3])) * 16
                                + HexValue(s[4])) * 16 + HexValue(s[5]), Drop(s, 5))
                ELSE ParseFail
           [] OTHER -> ParseFail

\* parse_str: the characters after the opening quote, up to the closing one.
RECURSIVE ParseStringBody(_, _)
ParseStringBody(s, acc) ==
    IF s = <<>> THEN ParseFail
    ELSE CASE Head(s) = 34 -> Parsed(acc, Tail(s))
           [] Head(s) = 92 ->
                Bind(ParseEscape(Tail(s)), LAMBDA e :
                    IF e.ok THEN ParseStringBody(e.rest, Append(acc, e.v)) ELSE ParseFail)
           [] Head(s) < 32 -> ParseFail
           [] OTHER -> ParseStringBody(Tail(s), Append(acc, Head(s)))

\* The name whose code points are cs.
IsKey(cs) == \E i \in 1..Len(KeyOrder) : KeyChars(KeyOrder[i]) = cs
KeyOf(cs) == KeyOrder[CHOOSE i \in 1..Len(KeyOrder) : KeyChars(KeyOrder[i]) = cs]

RECURSIVE ParseValue(_)
RECURSIVE ParseElements(_, _)
RECURSIVE ParseMembers(_, _)

\* The elements of an array after the first, up to the closing bracket.
ParseElements(s0, acc) ==
    Bind(SkipWhitespace(s0), LAMBDA s :
        IF s = <<>> THEN ParseFail
        ELSE IF Head(s) = 93 THEN Parsed(JArr(acc), Tail(s))
        ELSE IF Head(s) = 44
             THEN Bind(ParseValue(Tail(s)), LAMBDA e :
                      IF e.ok THEN ParseElements(e.rest, Append(acc, e.v)) ELSE ParseFail)
        ELSE ParseFail)

\* The value of the member whose key is k, after the key.
ParseMemberValue(k) ==
    Bind(SkipWhitespace(k.rest), LAMBDA c :
        IF ~IsKey(k.v) \/ c = <<>> \/ Head(c) # 58 THEN ParseFail
        ELSE Bind(ParseValue(Tail(c)), LAMBDA e :
                 IF e.ok THEN Parsed(<<KeyOf(k.v), e.v>>, e.rest) ELSE ParseFail))

\* One member, "key" : value.
ParseMember(s0) ==
    Bind(SkipWhitespace(s0), LAMBDA s :
        IF s = <<>> \/ Head(s) # 34 THEN ParseFail
        ELSE Bind(ParseStringBody(Tail(s), <<>>), LAMBDA k :
                 IF k.ok THEN ParseMemberValue(k) ELSE ParseFail))

\* The members of an object after the first, up to the closing brace; a
\* repeated key keeps its last value.
ParseMembers(s0, acc) ==
    Bind(SkipWhitespace(s0), LAMBDA s :
        IF s = <<>> THEN ParseFail
        ELSE IF Head(s) = 125 THEN Parsed(JObj(acc), Tail(s))
        ELSE IF Head(s) = 44
             THEN Bind(ParseMember(Tail(s)), LAMBDA m :
                      IF m.ok THEN ParseMembers(m.rest, Put(acc, m.v[1], m.v[2]))
                              ELSE ParseFail)
        ELSE ParseFail)

\* An array, after the opening bracket.
ParseArray(t0) ==
    Bind(SkipWhitespace(t0), LAMBDA t :
        IF t # <<>> /\ Head(t) = 93 THEN Parsed(JArr(<<>>), Tail(t))
        ELSE Bind(ParseValue(t), LAMBDA e :
                 IF e.ok THEN ParseElements(e.rest, <<e.v>>) ELSE ParseFail))

\* An object, after the opening brace.
ParseObject(t0) ==
    Bind(SkipWhitespace(t0), LAMBDA t :
        IF t # <<>> /\ Head(t) = 125 THEN Parsed(JObj(EmptyMap), Tail(t))
        ELSE Bind(ParseMember(t), LAMBDA m :
                 IF m.ok THEN ParseMembers(m.rest, Put(EmptyMap, m.v[1], m.v[2]))
                         ELSE ParseFail))

\* A string, after the opening quote.
ParseString(t) ==
    Bind(ParseStringBody(t, <<>>), LAMBDA b :
        IF b.ok THEN Parsed(JStr(b.v), b.rest) ELSE ParseFail)

\* parse_value
ParseValue(s0) ==
    Bind(SkipWhitespace(s0), LAMBDA s :
        IF s = <<>> THEN ParseFail
        ELSE CASE StartsWith(s, <<110, 117, 108, 108>>) -> Parsed(JNull, Drop(s, 4))
               [] StartsWith(s, <<116, 114, 117, 101>>) -> Parsed(JBool(TRUE), Drop(s, 4))
               [] StartsWith(s, <<102, 97, 108, 115, 101>>) -> Parsed(JBool(FALSE), Drop(s, 5))
               [] Head(s) = 45 \/ IsDigit(Head(s)) -> ParseNumber(s)
               [] Head(s) = 34 -> ParseString(Tail(s))
               [] Head(s) = 91 -> ParseArray(Tail(s))
               [] Head(s) = 123 -> ParseObject(Tail(s))
               [] OTHER -> ParseFail)

\* serde_json::from_str::<Value>: one value, then only whitespace.
from_str(text) ==
    Bind(ParseValue(text.s), LAMBDA p :
        IF p.ok /\ SkipWhitespace(p.rest) = <<>> THEN [ok |-> TRUE, v |-> p.v]
                                                 ELSE [ok |-> FALSE, v |-> JNull])

\* serde_json::from_str::<String>: the value must be a string.
from_str_String(text) ==
    Bind(from_str(text), LAMBDA p :
        IF p.ok /\ p.v.t = "str" THEN [ok |-> TRUE, text |-> Chars(p.v.v)]
                                  ELSE [ok |-> FALSE, text |-> Chars(<<>>)])

\* json_string.starts_with('"') && json_string.ends_with('"')
IsQuoted(text) == text.s # <<>> /\ Head(text.s) = 34 /\ text.s[Len(text.s)] = 34

\* An unescape that decodes the string a second time when it can.
unescape_json_twice(json_string) ==
    IF IsQuoted(json_string)
    THEN Bind(from_str_String(json_string), LAMBDA once :
             IF once.ok /\ IsQuoted(once.text)
             THEN Bind(from_str_String(once.text), LAMBDA twice :
                      IF twice.ok THEN twice ELSE once)
             ELSE once)
    ELSE [ok |-> TRUE, text |-> json_string]

\* unescape_json (json_validation.rs:151-163)
unescape_json(json_string) ==
    IF IsQuoted(json_string)
    THEN from_str_String(json_string)
    ELSE [ok |-> TRUE, text |-> json_string]

\* A field check that passes when the member is missing.
validate_json_message_content_lenient(json_value, field_name, field_value_check) ==
    IF field_name.some /\ field_value_check.some
    THEN IF json_value.t = "obj" /\ field_name.v \in DOMAIN json_value.v
            /\ json_value.v[field_name.v] # field_value_check.v
         THEN [ok |-> FALSE, err |-> "value mismatch"]
         ELSE [ok |-> TRUE, err |-> ""]
    ELSE [ok |-> FALSE, err |-> "Field name and value must be provided"]

\* validate_json_message_content (json_validation.rs:165-194)
validate_json_message_content(json_value, field_name, field_value_check) ==
    IF field_name.some /\ field_value_check.some
    THEN IF json_value.t = "obj" /\ field_name.v \in DOMAIN json_value.v
         THEN IF json_value.v[field_name.v] # field_value_check.v
              THEN [ok |-> FALSE, err |-> "value mismatch"]
              ELSE [ok |-> TRUE, err |-> ""]
         ELSE [ok |-> FALSE, err |-> "not found in the JSON"]
    ELSE [ok |-> FALSE, err |-> "Field name and value must be provided"]

unwrap_or(opt, default) == IF opt.some THEN opt.v ELSE default

\* The value serialize_with_options writes for an unset field when
\* skip_default_fields is false: the default of the field's kind.
DefaultValue(fd) ==
    CASE fd.card = "list" -> PV("List", <<>>)
      [] fd.card = "map" -> PV("Map", EmptyMap)
      [] fd.kind \in {"Double", "Float"} -> PV("F64", PosInt(<<0, 0, 0, 0>>))
      [] fd.kind \in {"Int32", "Sint32", "Sfixed32"} -> PV("I32", 0)
      [] fd.kind \in {"Int64", "Sint64", "Sfixed64"} -> PV("I64", <<0, 0, 0, 0>>)
      [] fd.kind \in {"Uint32", "Fixed32"} -> PV("U32", <<0, 0>>)
      [] fd.kind \in {"Uint64", "Fixed64"} -> PV("U64", <<0, 0, 0, 0>>)
      [] fd.kind = "Bool" -> PV("Bool", FALSE)
      [] fd.kind = "String" -> PV("String", <<>>)
      [] fd.kind = "Bytes" -> PV("Bytes", <<>>)
      [] fd.kind = "Enum" -> PV("EnumNumber", 0)

\* A singular message field has explicit presence: unset, it is not written.
supports_presence(fd) == fd.kind = "Message" /\ fd.card = "single"

\* The tokens of the JSON text: the braces and one entry per written field.
TokOpen == [tok |-> "{"]
TokClose == [tok |-> "}"]
TokEntry(name, value) == [tok |-> "entry", name |-> name, value |-> value]

RECURSIVE SerializeFields(_, _, _)
SerializeFields(dm, fields, names) ==
    IF names = <<>> THEN <<>>
    ELSE LET name == Head(names)
             rest == SerializeFields(dm, fields, Tail(names))
         IN IF name \in DOMAIN dm.fields
            THEN <<TokEntry(name, dm.fields[name])>> \o rest
            ELSE IF supports_presence(fields[name]) THEN rest
                 ELSE <<TokEntry(name, DefaultValue(fields[name]))>> \o rest

\* A serializer that writes only the fields that are set, without braces.
serialize_set_fields_only(dm) ==
    [ok |-> TRUE,
     bytes |-> SelectSeq(SerializeFields(dm, MessageDescriptors[dm.desc].fields,
                                         MapIter(MessageDescriptors[dm.desc].fields)),
                         LAMBDA t : InKeys(DOMAIN dm.fields, t.name))]

\* serialize_dynamic_message (lib.rs:260-282): the message is written as a
\* JSON object with skip_default_fields(false); writing into a Vec does not
\* fail and the text is UTF-8.
serialize_dynamic_message(dm) ==
    [ok |-> TRUE,
     bytes |-> <<TokOpen>>
                 \o SerializeFields(dm, MessageDescriptors[dm.desc].fields,
                                    MapIter(MessageDescriptors[dm.desc].fields))
                 \o <<TokClose>>]

\* The attributes of a measurement (json_validation.rs:48-58, 70-80).
Labels(message_name, field_check_enabled) ==
    [message_name |-> message_name,
     field_check |-> IF field_check_enabled THEN "enabled" ELSE "disabled"]

\* An error return of validate_json (`?`): record_duration is not called.
ValidationErr(err, counted) ==
    [ok |-> FALSE, err |-> err, counted |-> counted, observed |-> <<>>]

\* A counter that counts every call, parsed or not.
CountedOnParseFailure(counted) == counted

\* The parse failure returns before request_counter.add (lines 36-40).
CountedBeforeParse(counted) == <<>>

\* A validation that runs the field check before the bind: a request that
\* fails both is answered with the error of the field check.
validate_json_check_first(pool, json_message, definition_name, field_check, field_name, field_value_check, enable_metrics) ==
    LET message_name == unwrap_or(definition_name, "only_json")
        fc == unwrap_or(field_check, FALSE)
        counted == IF enable_metrics THEN <<Labels(message_name, fc)>> ELSE <<>>
        duration(name) == IF enable_metrics THEN <<Labels(name, fc)>> ELSE <<>>
        Valid(name) == [ok |-> TRUE, err |-> "", counted |-> counted,
                        observed |-> duration(name)]
        Checked(json_value, name) ==
            IF fc
            THEN Bind(validate_json_message_content(json_value, field_name, field_value_check),
                      LAMBDA check : IF check.ok THEN Valid(name)
                                     ELSE ValidationErr(check.err, counted))
            ELSE Valid(name)
        Serialized(json_value, dm) ==
            IF serialize_dynamic_message(dm).ok
            THEN Checked(json_value, message_name)
            ELSE ValidationErr("Failed to serialize dynamic message", counted)
        Populated(json_value, md) ==
            Bind(populate_dynamic_message(DynamicMessageNew(md), md, json_value),
                 LAMBDA bound : IF bound.ok THEN Serialized(json_value, bound.dm)
                                ELSE IF Checked(json_value, message_name).ok
                                     THEN ValidationErr(bound.err, counted)
                                     ELSE Checked(json_value, message_name))
    IN Bind(from_str(json_message), LAMBDA parsed :
           IF ~parsed.ok
           THEN [ok |-> FALSE, err |-> "Failed to parse JSON",
                 counted |-> CountedBeforeParse(counted), observed |-> <<>>]
           ELSE IF definition_name.some
                THEN Bind(get_message_by_name(pool, definition_name.v), LAMBDA found :
                         IF found.some THEN Populated(parsed.v, found.md)
                         ELSE ValidationErr("not found in pool", counted))
                ELSE Checked(parsed.v, "only_json"))

\* validate_json (json_validation.rs:17-149).  The result carries the
\* measurements the call made: counted, the attributes of
\* request_counter.add, and observed, those of duration_histogram.record.
validate_json(pool, json_message, definition_name, field_check, field_name, field_value_check, enable_metrics) ==
    LET message_name == unwrap_or(definition_name, "only_json")
        fc == unwrap_or(field_check, FALSE)
        counted == IF enable_metrics THEN <<Labels(message_name, fc)>> ELSE <<>>
        duration(name) == IF enable_metrics THEN <<Labels(name, fc)>> ELSE <<>>
        Valid(name) == [ok |-> TRUE, err |-> "", counted |-> counted,
                        observed |-> duration(name)]
        Checked(json_value, name) ==
            IF fc
            THEN Bind(validate_json_message_content(json_value, field_name, field_value_check),
                      LAMBDA check : IF check.ok THEN Valid(name)
                                     ELSE ValidationErr(check.err, counted))
            ELSE Valid(name)
        Serialized(json_value, dm) ==
            IF serialize_dynamic_message(dm).ok
            THEN Checked(json_value, message_name)
            ELSE ValidationErr("Failed to serialize dynamic message", counted)
        Populated(json_value, md) ==
            Bind(populate_dynamic_message(DynamicMessageNew(md), md, json_value),
                 LAMBDA bound : IF bound.ok THEN Serialized(json_value, bound.dm)
                                ELSE ValidationErr(bound.err, counted))
    IN Bind(from_str(json_message), LAMBDA parsed :
           IF ~parsed.ok
           THEN [ok |-> FALSE, err |-> "Failed to parse JSON",
                 counted |-> CountedBeforeParse(counted), observed |-> <<>>]
           ELSE IF definition_name.some
                THEN Bind(get_message_by_name(pool, definition_name.v), LAMBDA found :
                         IF found.some THEN Populated(parsed.v, found.md)
                         ELSE ValidationErr("not found in pool", counted))
                ELSE Checked(parsed.v, "only_json"))

\* Counter::add(1, attributes) and Histogram::record(_, attributes): the
\* number of measurements per attribute set.
RECURSIVE Measure(_, _)
Measure(instrument, measurements) ==
    IF measurements = <<>> THEN instrument
    ELSE LET l == Head(measurements)
         IN Measure(Put(instrument, l, IF l \in DOMAIN instrument THEN instrument[l] + 1 ELSE 1),
                    Tail(measurements))

(***************************************************************************)
(* The server: AppState and the two handlers (handlers.rs).                *)
(***************************************************************************)
\* Number of requests the model issues.
NumReqs == 3
\* Permits of AppState.semaphore.
NumPermits == 2

Reqs == 1..NumReqs

VARIABLES
    pc,              \* where each request's handler stands
    payload,         \* the request body of each request
    response,        \* the status code answered, 0 while none
    permits,         \* available permits of state.semaphore
    closed,          \* state.semaphore was closed
    readers,         \* requests holding a read guard of state.descriptor_map
    writers,         \* requests holding the write guard
    descriptor_map,  \* state.descriptor_map: file name -> bytes
    file_content,    \* load_descriptor_handler: the decoded bytes
    json_message,    \* validate_json_handler: the JSON text to validate
    descriptor_pool, \* validate_json_handler: the pool under construction
    snap,            \* the entries the rebuild loop has read so far
    snapLen,         \* history: uploads written when the read guard was taken
    ackedBefore,     \* history: uploads answered 200 when the read guard was taken
    writeLog,        \* history: the inserts in write-guard order
    bindM,           \* binder input: the message descriptor
    bindV,           \* binder input: the JSON value
    bindRes,         \* binder result, once called
    serRes,          \* result of serializing the bound message, once called
    freshRes,        \* result of serializing a fresh message, once called
    enable_metrics,     \* state.enable_metrics
    request_counter,    \* validate_json_requests_total: attributes -> count
    duration_histogram  \* validate_json_duration_seconds: attributes -> observations

serverVars == <<pc, payload, response, permits, closed, readers, writers,
                descriptor_map, file_content, json_message, descriptor_pool,
                snap, snapLen, ackedBefore, writeLog>>
bindVars == <<bindM, bindV, bindRes, serRes, freshRes>>
metricVars == <<enable_metrics, request_counter, duration_histogram>>

\* The descriptor producer (config-producer-proto/src/main.rs) and the
\* directory of .proto files it polls.
VARIABLES
    producer_pc,          \* where main stands in its loop
    loop_mode,            \* cli_args.loop_mode
    iteration,            \* the iteration of the loop main is in
    modified,             \* the directory: file -> modification time
    protobuf_definitions, \* main: file name -> (descriptor bytes, modification time)
    file_timestamps,      \* main: file name -> modification time at processing
    scanned,              \* load_proto_files: the files its loop has visited
    sent,                 \* main: the definitions its send loop has visited
    processedAt,          \* history: modification time at the last successful processing
    uploadedAt,           \* history: modification time of the version last uploaded
    protoc_runs,          \* history: protoc invocations per file
    posts                 \* history: POST /load_descriptor requests per file

producerVars == <<producer_pc, loop_mode, iteration, modified, protobuf_definitions,
                  file_timestamps, scanned, sent, processedAt, uploadedAt,
                  protoc_runs, posts>>
vars == <<serverVars, bindVars, metricVars, producerVars>>

\* The .proto files of PROTO_SCHEMA_INPUT_DIR.
ProtoFiles == {"my.proto", "all.proto"}

\* The producer is not running.
ProducerIdle ==
    /\ producer_pc = "stopped"
    /\ loop_mode = FALSE
    /\ iteration = 0
    /\ modified = [f \in ProtoFiles |-> 1]
    /\ protobuf_definitions = EmptyMap
    /\ file_timestamps = EmptyMap
    /\ scanned = {}
    /\ sent = {}
    /\ processedAt = [f \in ProtoFiles |-> 0]
    /\ uploadedAt = [f \in ProtoFiles |-> 0]
    /\ protoc_runs = [f \in ProtoFiles |-> 0]
    /\ posts = [f \in ProtoFiles |-> 0]

NoPayload == [kind |-> "none"]

ServerInit ==
    /\ pc = [r \in Reqs |-> "new"]
    /\ payload = [r \in Reqs |-> NoPayload]
    /\ response = [r \in Reqs |-> 0]
    /\ permits = NumPermits
    /\ closed = FALSE
    /\ readers = {}
    /\ writers = {}
    /\ descriptor_map = EmptyMap
    /\ file_content = [r \in Reqs |-> ""]
    /\ json_message = [r \in Reqs |-> Chars(<<>>)]
    /\ descriptor_pool = [r \in Reqs |-> DescriptorPoolDefault]
    /\ snap = [r \in Reqs |-> EmptyMap]
    /\ snapLen = [r \in Reqs |-> 0]
    /\ ackedBefore = [r \in Reqs |-> {}]
    /\ writeLog = <<>>
    /\ enable_metrics = TRUE
    /\ request_counter = EmptyMap
    /\ duration_histogram = EmptyMap

\* An acquire that does not wait for a permit.
CanAcquireAlways(p) == TRUE
\* tokio Semaphore::acquire resolves to a permit when one is available.
CanAcquire(p) == p > 0

\* An exit that keeps the permit.
KeepPermit(p) == p
\* Dropping the permit at handler exit returns it to the semaphore.
DropPermit(p) == p + 1

\* A write guard that does not wait for the readers.
CanWriteDespiteReaders(rs, ws) == ws = {}
\* tokio RwLock::write: the write guard excludes readers and writers.
CanWrite(rs, ws) == rs = {} /\ ws = {}

\* A read guard that does not wait for the writer.
CanReadDespiteWriter(rs, ws) == TRUE
\* tokio RwLock::read: a read guard excludes the writer only.
CanRead(rs, ws) == ws = {}

\* An insert that keeps the value of an existing key.
HashMapInsertIfAbsent(map, k, v) == IF k \in DOMAIN map THEN map ELSE Put(map, k, v)
\* HashMap::insert overwrites the value of an existing key.
HashMapInsert(map, k, v) == Put(map, k, v)

\* The handler returns: the status is answered, its locals are dropped and,
\* last, the permit it holds.
Return(r, status) ==
    /\ response' = [response EXCEPT ![r] = status]
    /\ pc' = [pc EXCEPT ![r] = "done"]
    /\ permits' = DropPermit(permits)
    /\ file_content' = [file_content EXCEPT ![r] = ""]
    /\ json_message' = [json_message EXCEPT ![r] = Chars(<<>>)]
    /\ descriptor_pool' = [descriptor_pool EXCEPT ![r] = DescriptorPoolDefault]
    /\ snap' = [snap EXCEPT ![r] = EmptyMap]
    /\ snapLen' = [snapLen EXCEPT ![r] = 0]
    /\ ackedBefore' = [ackedBefore EXCEPT ![r] = {}]

\* A request arrives (requests are numbered in arrival order).
Arrive(r, body) ==
    /\ pc[r] = "new"
    /\ \A q \in Reqs : q < r => pc[q] # "new"
    /\ payload' = [payload EXCEPT ![r] = body]
    /\ pc' = [pc EXCEPT ![r] = "acquire"]
    /\ UNCHANGED <<response, permits, closed, readers, writers, descriptor_map,
                   file_content, json_message, descriptor_pool, snap, snapLen,
                   ackedBefore, writeLog, bindVars, metricVars, producerVars>>

\* The owner of the semaphore closes it (shutdown).
SemaphoreClose ==
    /\ ~closed
    /\ closed' = TRUE
    /\ UNCHANGED <<pc, payload, response, permits, readers, writers, descriptor_map,
                   file_content, json_message, descriptor_pool, snap, snapLen,
                   ackedBefore, writeLog, bindVars, metricVars, producerVars>>

\* handlers.rs:33-34 and 86-87: state.semaphore.acquire().await gives a permit.
AcquirePermit(r) ==
    /\ pc[r] = "acquire"
    /\ ~closed
    /\ CanAcquire(permits)
    /\ permits' = permits - 1
    /\ pc' = [pc EXCEPT ![r] = IF payload[r].kind = "load" THEN "decode" ELSE "unescape"]
    /\ UNCHANGED <<payload, response, closed, readers, writers, descriptor_map,
                   file_content, json_message, descriptor_pool, snap, snapLen,
                   ackedBefore, writeLog, bindVars, metricVars, producerVars>>

\* handlers.rs:35-42 and 88-91: acquire() resolves to Err on a closed
\* semaphore; the handler answers 503 and does nothing else.
AcquireFails(r) ==
    /\ pc[r] = "acquire"
    /\ closed
    /\ response' = [response EXCEPT ![r] = 503]
    /\ pc' = [pc EXCEPT ![r] = "done"]
    /\ UNCHANGED <<payload, permits, closed, readers, writers, descriptor_map,
                   file_content, json_message, descriptor_pool, snap, snapLen,
                   ackedBefore, writeLog, bindVars, metricVars, producerVars>>

\* An upload handler that stores the undecoded text before it answers 400.
LoadDecodeFailsStores(r) ==
    /\ pc[r] = "decode"
    /\ ~base64_decode(payload[r].file_content).ok
    /\ descriptor_map' = HashMapInsert(descriptor_map, payload[r].file_name,
                                        payload[r].file_content)
    /\ Return(r, 400)
    /\ UNCHANGED <<payload, closed, readers, writers, writeLog, bindVars, metricVars, producerVars>>

\* load_descriptor_handler, handlers.rs:48-65: base64::decode fails, 400.
LoadDecodeFails(r) ==
    /\ pc[r] = "decode"
    /\ ~base64_decode(payload[r].file_content).ok
    /\ Return(r, 400)
    /\ UNCHANGED <<payload, closed, readers, writers, descriptor_map, writeLog, bindVars, metricVars, producerVars>>

\* handlers.rs:55-67: base64::decode succeeds (a step local to the handler)
\* and state.descriptor_map.write().await gives the write guard.
LoadAcquireWrite(r) ==
    /\ pc[r] = "decode"
    /\ base64_decode(payload[r].file_content).ok
    /\ CanWrite(readers, writers)
    /\ file_content' = [file_content EXCEPT ![r] = base64_decode(payload[r].file_content).bytes]
    /\ writers' = writers \cup {r}
    /\ pc' = [pc EXCEPT ![r] = "insert"]
    /\ UNCHANGED <<payload, response, permits, closed, readers, descriptor_map,
                   json_message, descriptor_pool, snap, snapLen,
                   ackedBefore, writeLog, bindVars, metricVars, producerVars>>

\* handlers.rs:68-78: insert, answer 200; the write guard and the permit drop.
LoadInsert(r) ==
    /\ pc[r] = "insert"
    /\ descriptor_map' = HashMapInsert(descriptor_map, payload[r].file_name, file_content[r])
    /\ writeLog' = Append(writeLog, [name |-> payload[r].file_name,
                                     bytes |-> file_content[r], by |-> r])
    /\ writers' = writers \ {r}
    /\ Return(r, 200)
    /\ UNCHANGED <<payload, closed, readers, bindVars, metricVars, producerVars>>

\* The JSON text validate_json_handler validates (handlers.rs:97-111):
\* unescaped when json_escaped is true or absent.
JsonMessage(body) ==
    IF unwrap_or(body.json_escaped, TRUE)
    THEN unescape_json(to_string(body.json))
    ELSE [ok |-> TRUE, text |-> to_string(body.json)]

\* validate_json_handler, handlers.rs:97-115: the JSON text is computed (a
\* step local to the handler; 400 if unescaping fails) and
\* state.descriptor_map.read().await gives a read guard.
ValAcquireRead(r) ==
    /\ pc[r] = "unescape"
    /\ \E u \in {JsonMessage(payload[r])} :
          IF u.ok
          THEN /\ CanRead(readers, writers)
               /\ json_message' = [json_message EXCEPT ![r] = u.text]
               /\ readers' = readers \cup {r}
               /\ snapLen' = [snapLen EXCEPT ![r] = Len(writeLog)]
               /\ ackedBefore' = [ackedBefore EXCEPT ![r] =
                      {q \in Reqs : payload[q].kind = "load" /\ response[q] = 200}]
               /\ pc' = [pc EXCEPT ![r] = "rebuild"]
               /\ UNCHANGED <<response, permits, file_content, descriptor_pool, snap>>
          ELSE /\ Return(r, 400)
               /\ UNCHANGED readers
    /\ UNCHANGED <<payload, closed, writers, descriptor_map, writeLog, bindVars, metricVars, producerVars>>

\* protobuf_descriptors.rs:105-120: one iteration of the loop over the map,
\* in the HashMap's iteration order; an entry that fails ends the handler
\* with 500 (handlers.rs:118-121), dropping the read guard.
ValRebuildEntry(r, file_name) ==
    /\ pc[r] = "rebuild"
    /\ file_name \in (DOMAIN descriptor_map) \ (DOMAIN snap[r])
    /\ LET e == RebuildEntry(descriptor_pool[r], descriptor_map[file_name])
       IN IF e.ok
          THEN /\ descriptor_pool' = [descriptor_pool EXCEPT ![r] = e.pool]
               /\ snap' = [snap EXCEPT ![r] =
                              Put(snap[r], file_name, descriptor_map[file_name])]
               /\ UNCHANGED <<pc, response, permits, readers, file_content,
                              json_message, snapLen, ackedBefore>>
          ELSE /\ Return(r, 500)
               /\ readers' = readers \ {r}
    /\ UNCHANGED <<payload, closed, writers, descriptor_map, writeLog, bindVars, metricVars, producerVars>>

\* A validation that keeps its read guard while validate_json runs.
ValRebuildDoneKeepsGuard(r) ==
    /\ pc[r] = "rebuild"
    /\ DOMAIN descriptor_map = DOMAIN snap[r]
    /\ pc' = [pc EXCEPT ![r] = "validate"]
    /\ UNCHANGED <<payload, response, permits, closed, readers, writers, descriptor_map,
                   file_content, json_message, descriptor_pool, snap, snapLen,
                   ackedBefore, writeLog, bindVars, metricVars, producerVars>>

\* protobuf_descriptors.rs:122 and handlers.rs:123: the loop is over, the
\* pool is returned and the read guard drops.
ValRebuildDone(r) ==
    /\ pc[r] = "rebuild"
    /\ DOMAIN descriptor_map = DOMAIN snap[r]
    /\ readers' = readers \ {r}
    /\ pc' = [pc EXCEPT ![r] = "validate"]
    /\ UNCHANGED <<payload, response, permits, closed, writers, descriptor_map,
                   file_content, json_message, descriptor_pool, snap, snapLen,
                   ackedBefore, writeLog, bindVars, metricVars, producerVars>>

\* A handler that answers 200 whatever validate_json returns.
StatusAlwaysOk(res) == 200

\* handlers.rs:136-145: Ok(_) is answered 200, Err(e) 400.
StatusOf(res) == IF res.ok THEN 200 ELSE 400

\* handlers.rs:125-146: validate_json, 200 or 400; the measurements it made
\* are in the instruments.
ValValidate(r) ==
    /\ pc[r] = "validate"
    /\ \E res \in {validate_json(descriptor_pool[r], json_message[r], payload[r].protobuf,
                                   payload[r].field_check, payload[r].field_name,
                                   payload[r].field_value_check, enable_metrics)} :
          /\ Return(r, StatusOf(res))
          /\ request_counter' = Measure(request_counter, res.counted)
          /\ duration_histogram' = Measure(duration_histogram, res.observed)
    /\ UNCHANGED <<payload, closed, readers, writers, descriptor_map, writeLog, bindVars,
                   enable_metrics, producerVars>>

BindIdle ==
    /\ bindM = "MyMessage"
    /\ bindV = JNull
    /\ bindRes = [called |-> FALSE]
    /\ serRes = [called |-> FALSE]
    /\ freshRes = [called |-> FALSE]

Init == ServerInit /\ BindIdle /\ ProducerIdle

Next ==
    \/ \E r \in Reqs : \E body \in LoadDescriptorRequests \cup ValidationRequests :
          Arrive(r, body)
    \/ SemaphoreClose
    \/ \E r \in Reqs : AcquirePermit(r)
    \/ \E r \in Reqs : AcquireFails(r)
    \/ \E r \in Reqs : LoadDecodeFails(r)
    \/ \E r \in Reqs : LoadAcquireWrite(r)
    \/ \E r \in Reqs : LoadInsert(r)
    \/ \E r \in Reqs : ValAcquireRead(r)
    \/ \E r \in Reqs : \E f \in FileNames : ValRebuildEntry(r, f)
    \/ \E r \in Reqs : ValRebuildDone(r)
    \/ \E r \in Reqs : ValValidate(r)

Spec == Init /\ [][Next]_vars

(***************************************************************************)
(* The binder on bounded inputs: populate_dynamic_message is applied to a  *)
(* fresh dynamic message, a message descriptor and a JSON value.           *)
(***************************************************************************)
\* Entries a JSON object has besides its first one.
MaxExtraKeys == 1

W(l1, l2, l3, l4) == <<l1, l2, l3, l4>>

IntSamples ==
    { PosInt(W(0, 0, 0, 0)),                               \* 0
      Num42,                                               \* 42
      NegInt(W(LimbMax, LimbMax, LimbMax, LimbMax)),       \* -1
      PosInt(W(LimbMax, HalfLimb - 1, 0, 0)),              \* 2^31 - 1
      PosInt(W(0, HalfLimb, 0, 0)),                        \* 2^31
      NegInt(W(0, HalfLimb, LimbMax, LimbMax)),            \* -2^31
      NegInt(W(LimbMax, HalfLimb - 1, LimbMax, LimbMax)),  \* -2^31 - 1
      PosInt(W(LimbMax, LimbMax, 0, 0)),                   \* 2^32 - 1
      PosInt(W(0, 0, 1, 0)),                               \* 2^32
      PosInt(W(5, 0, 1, 0)),                               \* 2^32 + 5
      PosInt(W(LimbMax, LimbMax, LimbMax, HalfLimb - 1)),  \* 2^63 - 1
      PosInt(W(0, 0, 0, HalfLimb)),                        \* 2^63
      NegInt(W(0, 0, 0, HalfLimb)),                        \* -2^63
      PosInt(W(LimbMax, LimbMax, LimbMax, LimbMax)) }      \* 2^64 - 1

\* "h" followed by U+00E9.
CharsNonAscii == <<104, 233>>

NonObjectSamples ==
    {JNum(n) : n \in IntSamples}
        \cup {JNum(Float(<<49, 46, 53>>)), JNull, JBool(TRUE), JStr(CharsRED),
              JStr(CharsNonAscii), JArr(<<JNum(Num42)>>)}

ObjectSamples ==
    { JObj(EmptyMap),
      ObjKey2(JNum(Num42)),
      ObjKey2(JNum(PosInt(W(0, HalfLimb, 0, 0)))),
      JObj([k \in {"nope"} |-> JNum(Num42)]),
      JObj([k \in {"key", "value"} |-> IF k = "key" THEN JStr(CharsRED) ELSE JNum(Num42)]) }

JsonSamples == NonObjectSamples \cup ObjectSamples

BindKeys == (DOMAIN AllKindsFields) \cup (DOMAIN MyMessageFields) \cup {"nope"}

ExtraEntries ==
    { <<"nope", JNum(Num42)>>, <<"key3", JBool(TRUE)>>,
      <<"f_bool", JBool(TRUE)>>, <<"f_int32", JStr(CharsRED)>> }

\* The object with the entry (k, v) and the extra entries es.
ObjectOf(k, v, es) ==
    JObj([x \in {k} \cup {e[1] : e \in es} |->
             IF x = k THEN v ELSE (CHOOSE e \in es : e[1] = x)[2]])

BindInputs ==
    NonObjectSamples
        \cup { ObjectOf(k, v, es) :
                 k \in BindKeys, v \in JsonSamples,
                 es \in {S \in SUBSET ExtraEntries :
                           /\ Cardinality(S) <= MaxExtraKeys
                           /\ \A e, g \in S : e[1] = g[1] => e = g} }

BindMessages == {"MyMessage", "AllKinds"}

BindInit ==
    /\ ServerInit
    /\ ProducerIdle
    /\ bindM \in BindMessages
    /\ bindV \in BindInputs
    /\ bindRes = [called |-> FALSE]
    /\ serRes = [called |-> FALSE]
    /\ freshRes = [called |-> FALSE]

\* The call populate_dynamic_message(&mut DynamicMessage::new(md), &md, &json_value).
BindPopulate ==
    /\ ~bindRes.called
    /\ LET res == populate_dynamic_message(
                      DynamicMessageNew(MessageDescriptors[bindM]),
                      MessageDescriptors[bindM], bindV)
       IN bindRes' = [called |-> TRUE, ok |-> res.ok, dm |-> res.dm, err |-> res.err]
    /\ UNCHANGED <<bindM, bindV, serRes, freshRes, serverVars, metricVars, producerVars>>

\* The call serialize_dynamic_message(&mut dynamic_message) that follows a
\* successful populate_dynamic_message (json_validation.rs:108-117).
BindSerialize ==
    /\ bindRes.called /\ bindRes.ok
    /\ ~serRes.called
    /\ LET res == serialize_dynamic_message(bindRes.dm)
       IN serRes' = [called |-> TRUE, ok |-> res.ok, bytes |-> res.bytes]
    /\ UNCHANGED <<bindM, bindV, bindRes, freshRes, serverVars, metricVars, producerVars>>

\* serialize_dynamic_message on DynamicMessage::new(md), nothing populated.
SerializeFresh ==
    /\ ~freshRes.called
    /\ LET res == serialize_dynamic_message(DynamicMessageNew(MessageDescriptors[bindM]))
       IN freshRes' = [called |-> TRUE, ok |-> res.ok, bytes |-> res.bytes]
    /\ UNCHANGED <<bindM, bindV, bindRes, serRes, serverVars, metricVars, producerVars>>

BindNext == BindPopulate \/ BindSerialize \/ SerializeFresh

BindSpec == BindInit /\ [][BindNext]_vars

Bound == bindRes.called
BindMd == MessageDescriptors[bindM]

\* The top-level entries of the bound value whose key names a field of one
\* of the given kinds.
EntriesOfKind(kinds) ==
    IF bindV.t # "obj" THEN {}
    ELSE {k \in DOMAIN bindV.v :
            k \in DOMAIN BindMd.fields /\ BindMd.fields[k].kind \in kinds}

(***************************************************************************)
(* Properties of the server (Spec).                                        *)
(***************************************************************************)
\* The handlers past permit acquisition that have not returned.
InFlight == {r \in Reqs : pc[r] \in {"decode", "insert", "unescape", "rebuild", "validate"}}

\* The store after the inserts of a log, in order.
RECURSIVE LastWriterWins(_)
LastWriterWins(log) ==
    IF log = <<>> THEN EmptyMap
    ELSE LET e == log[Len(log)]
         IN Put(LastWriterWins(SubSeq(log, 1, Len(log) - 1)), e.name, e.bytes)

\* The store as it was when request r took its read guard.
StoreAtSnapshot(r) == LastWriterWins(SubSeq(writeLog, 1, snapLen[r]))

\* The position of request u's insert in the log, 0 if it has none.
LogIndex(u) ==
    IF \E i \in 1..Len(writeLog) : writeLog[i].by = u
    THEN CHOOSE i \in 1..Len(writeLog) : writeLog[i].by = u
    ELSE 0

\* C1: with N permits, at most N handlers are past permit acquisition and
\* not yet returned, in every reachable state.
C1_AdmissionBound == Cardinality(InFlight) <= NumPermits

\* All permits are held and a further request waits for one.
C1_Witness ==
    /\ Cardinality(InFlight) = NumPermits
    /\ \E r \in Reqs : pc[r] = "acquire"

\* C2: an upload never holds the write guard while a validation holds a read
\* guard or another upload holds the write guard.
C2_ReadersWriter ==
    writers # {} => (readers = {} /\ Cardinality(writers) = 1)

\* Two validations hold read guards at the same time.
C2_Witness == Cardinality(readers) >= 2

\* C3: the entries a validation builds its pool from are those of the store
\* as it was when the validation took its read guard: every entry read so
\* far is an entry of that store, and a completed build has read all of it.
C3_SnapshotIsOneStoreState ==
    \A r \in Reqs :
        pc[r] \in {"rebuild", "validate"} =>
            /\ \A f \in DOMAIN snap[r] :
                   f \in DOMAIN StoreAtSnapshot(r) /\ snap[r][f] = StoreAtSnapshot(r)[f]
            /\ pc[r] = "validate" => snap[r] = StoreAtSnapshot(r)

\* A validation holds a pool built from a non-empty store, and an upload has
\* been written since.
C3_Witness ==
    \E r \in Reqs :
        /\ pc[r] = "validate"
        /\ snap[r] # EmptyMap
        /\ Len(writeLog) > snapLen[r]

\* C4: the store is the last-writer-wins result of the uploads in
\* write-guard order, so every name answered 200 stays present with the
\* bytes of its most recent upload; a validation that took its read guard
\* after an upload was answered 200 reads that name, with the bytes of that
\* upload or of a later upload of the same name.
C4_LastWriterWins ==
    /\ descriptor_map = LastWriterWins(writeLog)
    /\ \A u \in Reqs :
           (payload[u].kind = "load" /\ response[u] = 200) =>
               /\ LogIndex(u) > 0
               /\ payload[u].file_name \in DOMAIN descriptor_map
               /\ \E i \in LogIndex(u)..Len(writeLog) :
                      /\ writeLog[i].name = payload[u].file_name
                      /\ writeLog[i].bytes = descriptor_map[payload[u].file_name]
    /\ \A r \in Reqs :
           pc[r] = "validate" =>
               \A u \in ackedBefore[r] :
                   /\ payload[u].file_name \in DOMAIN snap[r]
                   /\ \E i \in LogIndex(u)..snapLen[r] :
                          /\ writeLog[i].name = payload[u].file_name
                          /\ writeLog[i].bytes = snap[r][payload[u].file_name]

\* A name was uploaded twice with different bytes, and a validation that
\* started after an acknowledged upload holds its pool.
C4_Witness ==
    /\ \E i, j \in 1..Len(writeLog) :
           i < j /\ writeLog[i].name = writeLog[j].name
                 /\ writeLog[i].bytes # writeLog[j].bytes
    /\ \E r \in Reqs : pc[r] = "validate" /\ ackedBefore[r] # {}

\* C5: an upload whose bytes are no FileDescriptorSet is answered 400 and
\* installs nothing: every entry of the store decodes.
C5_UploadValidatesDescriptor ==
    /\ \A f \in DOMAIN descriptor_map : DecodeFileDescriptorSet(descriptor_map[f]).ok
    /\ \A u \in Reqs :
           (/\ payload[u].kind = "load"
            /\ base64_decode(payload[u].file_content).ok
            /\ ~DecodeFileDescriptorSet(base64_decode(payload[u].file_content).bytes).ok
            /\ response[u] \notin {0, 503}) => response[u] = 400

\* C6: every exit path returns the permit: the permits not available are
\* exactly those of the handlers in flight, so with no handler in flight
\* all N permits are available.
C6_PermitsReleased ==
    /\ permits = NumPermits - Cardinality(InFlight)
    /\ InFlight = {} => permits = NumPermits

\* No handler is in flight after requests answered 200, 400 and 500.
C6_Witness ==
    /\ InFlight = {}
    /\ \E a, b, c \in Reqs :
           response[a] = 200 /\ response[b] = 400 /\ response[c] = 500

\* The status validate_json_handler gives a request body when the store
\* is empty.
StatusOnEmptyStore(body) ==
    LET u == JsonMessage(body)
    IN IF ~u.ok THEN 400
       ELSE IF validate_json(DescriptorPoolDefault, u.text, body.protobuf, body.field_check,
                             body.field_name, body.field_value_check, enable_metrics).ok
            THEN 200 ELSE 400

\* C13: a validation request without a target message name is never
\* answered 500, and its answer is the one it gets on an empty store,
\* whatever the store holds.
C13_NoTargetIgnoresStore ==
    \A r \in Reqs :
        (payload[r].kind = "validate" /\ ~payload[r].protobuf.some) =>
            /\ response[r] # 500
            /\ response[r] \in {0, 503, StatusOnEmptyStore(payload[r])}

(***************************************************************************)
(* Properties of the binder (BindSpec).                                    *)
(***************************************************************************)
Signed32Kinds == {"Int32", "Sint32", "Sfixed32"}
Unsigned32Kinds == {"Uint32", "Fixed32"}
UnsignedKinds == {"Uint32", "Fixed32", "Uint64", "Fixed64"}

\* C7: binding an integer outside [-2^31, 2^31-1] into a field of kind
\* Int32, Sint32 or Sfixed32 fails.
C7_Signed32RangeStrict ==
    Bound =>
        \A k \in EntriesOfKind(Signed32Kinds) :
            (IsInt(bindV.v[k]) /\ ~InI32Range(bindV.v[k].v)) => ~bindRes.ok

\* C8: binding an integer greater than 2^32-1 into a field of kind Uint32
\* or Fixed32 fails.
C8_Unsigned32RangeStrict ==
    Bound =>
        \A k \in EntriesOfKind(Unsigned32Kinds) :
            (IsInt(bindV.v[k]) /\ bindV.v[k].v.k = "PosInt" /\ ~InU32Range(bindV.v[k].v))
                => ~bindRes.ok

\* C9: binding a negative integer into a field of an unsigned kind fails.
C9_UnsignedRejectsNegative ==
    Bound =>
        \A k \in EntriesOfKind(UnsignedKinds) :
            (IsInt(bindV.v[k]) /\ IsNegative(bindV.v[k].v)) => ~bindRes.ok

\* A negative integer was bound into the only entry, a 64-bit unsigned
\* field, and the binder failed.
C9_Witness ==
    /\ Bound
    /\ \E k \in EntriesOfKind({"Uint64", "Fixed64"}) :
           /\ DOMAIN bindV.v = {k}
           /\ IsInt(bindV.v[k]) /\ IsNegative(bindV.v[k].v)
    /\ ~bindRes.ok

\* C10: if a top-level key of the JSON object names no field of the
\* message, the binder fails, whatever the other entries.
C10_UnknownKeyFails ==
    (Bound /\ bindV.t = "obj") =>
        ((\E k \in DOMAIN bindV.v : k \notin DOMAIN BindMd.fields) => ~bindRes.ok)

\* An object with a valid entry and an unknown key was bound, and failed.
C10_Witness ==
    /\ Bound
    /\ bindM = "MyMessage"
    /\ bindV = JObj([k \in {"key3", "nope"} |->
                        IF k = "key3" THEN JBool(TRUE) ELSE JNum(Num42)])
    /\ ~bindRes.ok

\* The "Accepts JSON" shape of each kind family of the binding table.
FloatingKinds == {"Double", "Float"}
Signed64Kinds == {"Int64", "Sint64", "Sfixed64"}
StringShapedKinds == {"String", "Bytes", "Enum"}
AcceptsJson(kind, jv) ==
    CASE kind \in FloatingKinds -> jv.t = "num"
      [] kind \in Signed32Kinds \cup Signed64Kinds -> IsInt(jv)
      [] kind \in UnsignedKinds -> IsInt(jv) /\ ~IsNegative(jv.v)
      [] kind = "Bool" -> jv.t = "bool"
      [] kind \in StringShapedKinds -> jv.t = "str"
      [] kind = "Message" -> jv.t = "obj"

TableKinds ==
    FloatingKinds \cup Signed32Kinds \cup Signed64Kinds \cup UnsignedKinds
        \cup {"Bool"} \cup StringShapedKinds \cup {"Message"}

\* C11: for every kind family of the binding table, binding a JSON value
\* whose shape is outside the family's accepted shape fails.
C11_KindStrictness ==
    Bound =>
        \A k \in EntriesOfKind(TableKinds) :
            ~AcceptsJson(BindMd.fields[k].kind, bindV.v[k]) => ~bindRes.ok

\* A string was bound into a signed 64-bit field as the only entry, and
\* the binder failed.
C11_Witness ==
    /\ Bound
    /\ bindM = "AllKinds"
    /\ bindV.t = "obj"
    /\ DOMAIN bindV.v = {"f_int64"}
    /\ bindV.v["f_int64"].t = "str"
    /\ ~AcceptsJson(BindMd.fields["f_int64"].kind, bindV.v["f_int64"])
    /\ ~bindRes.ok

CharsQuoteInside == <<97, 34, 98>>

ObjKey1(v) == JObj([k \in {"key1"} |-> v])

\* The JSON documents validated.
Documents ==
    { ObjKey2(JNum(Num42)), ObjKey2(JStr(CharsRED)), ObjKey1(JStr(CharsQuoteInside)),
      JStr(CharsRED), JNum(Num42) }

\* The JSON-encoded string of a document: compact, and with whitespace
\* around it.
EscapedOf(J) == JStr(ValueText(J))
SpacedOf(J) == JStr(<<32>> \o ValueText(J) \o <<10>>)

\* The values of the 'json' member: documents, their encoded strings (the
\* document "RED" is also the string of the text RED, which is no JSON).
JsonInputs ==
    Documents \cup {EscapedOf(J) : J \in Documents} \cup {SpacedOf(ObjKey2(JNum(Num42)))}

\* field_check, field_name, field_value_check.
FieldCheckInputs ==
    { <<None, None, None>>,
      <<Some(FALSE), Some("key2"), Some(JNum(Num43))>>,
      <<Some(TRUE), Some("key2"), Some(JNum(Num42))>>,
      <<Some(TRUE), Some("key2"), Some(JNum(Num43))>>,
      <<Some(TRUE), Some("key1"), Some(JStr(CharsQuoteInside))>>,
      <<Some(TRUE), Some("nope"), Some(JNum(Num42))>>,
      <<Some(TRUE), None, Some(JNum(Num42))>>,
      <<Some(TRUE), Some("key2"), None>> }

ValidationInputs ==
    { ValidationRequest(protobuf, json, json_escaped, fc[1], fc[2], fc[3]) :
        protobuf \in {None, Some("MyMessage"), Some("Nope")},
        json \in JsonInputs,
        json_escaped \in {None, Some(TRUE), Some(FALSE)},
        fc \in FieldCheckInputs }

\* The uploads answered before the request, in write-guard order.
Upload(name, bytes) == [name |-> name, bytes |-> bytes, by |-> 0]
StoreInputs ==
    { <<>>,
      <<Upload("my.pb", "fdsMy")>>,
      <<Upload("my.pb", "fdsMy"), Upload("all.pb", "fdsAll")>>,
      <<Upload("all.pb", "fdsAll")>>,
      <<Upload("my.pb", "junk")>> }

\* The request under validation.
TheReq == CHOOSE r \in Reqs : \A q \in Reqs : r <= q

ValidateInit ==
    /\ \E body \in ValidationInputs :
           payload = [r \in Reqs |-> IF r = TheReq THEN body ELSE NoPayload]
    /\ pc = [r \in Reqs |-> IF r = TheReq THEN "acquire" ELSE "new"]
    /\ \E log \in StoreInputs :
           /\ writeLog = log
           /\ descriptor_map = LastWriterWins(log)
    /\ enable_metrics \in BOOLEAN
    /\ response = [r \in Reqs |-> 0]
    /\ permits = NumPermits
    /\ closed = FALSE
    /\ readers = {}
    /\ writers = {}
    /\ file_content = [r \in Reqs |-> ""]
    /\ json_message = [r \in Reqs |-> Chars(<<>>)]
    /\ descriptor_pool = [r \in Reqs |-> DescriptorPoolDefault]
    /\ snap = [r \in Reqs |-> EmptyMap]
    /\ snapLen = [r \in Reqs |-> 0]
    /\ ackedBefore = [r \in Reqs |-> {}]
    /\ request_counter = EmptyMap
    /\ duration_histogram = EmptyMap
    /\ BindIdle
    /\ ProducerIdle

ValidateNext ==
    \/ \E r \in Reqs : AcquirePermit(r)
    \/ \E r \in Reqs : ValAcquireRead(r)
    \/ \E r \in Reqs : \E f \in FileNames : ValRebuildEntry(r, f)
    \/ \E r \in Reqs : ValRebuildDone(r)
    \/ \E r \in Reqs : ValValidate(r)

ValidateSpec == ValidateInit /\ [][ValidateNext]_vars

\* What validate_json gives for request r with the pool it holds.
Validation(r) ==
    validate_json(descriptor_pool[r], json_message[r], payload[r].protobuf,
                  payload[r].field_check, payload[r].field_name,
                  payload[r].field_value_check, enable_metrics)

\* C14: an admitted validation request is answered 200 iff validate_json
\* succeeds, 400 on every failure of validate_json (parse, unknown message,
\* bind, serialize, field check), 500 iff the pool build fails, and nothing
\* else.
C14_StatusByOutcome ==
    [][\A r \in Reqs :
          (/\ payload[r].kind = "validate"
           /\ pc[r] \in {"unescape", "rebuild", "validate"}
           /\ response'[r] # response[r]) =>
              /\ response'[r] \in {200, 400, 500}
              /\ response'[r] = 500 <=> pc[r] = "rebuild"
              /\ pc[r] = "rebuild" =>
                     \E f \in (DOMAIN descriptor_map) \ (DOMAIN snap[r]) :
                         ~RebuildEntry(descriptor_pool[r], descriptor_map[f]).ok
              /\ response'[r] = 200 <=> (pc[r] = "validate" /\ Validation(r).ok)
              /\ (pc[r] = "validate" /\ ~Validation(r).ok) => response'[r] = 400
      ]_vars

\* A request naming MyMessage, with the descriptor in the store and a string
\* where the int32 field key2 is expected, was answered 400.
C14_Witness ==
    /\ payload[TheReq].kind = "validate"
    /\ payload[TheReq].protobuf = Some("MyMessage")
    /\ payload[TheReq].json = ObjKey2(JStr(CharsRED))
    /\ payload[TheReq].json_escaped = Some(FALSE)
    /\ descriptor_map = LastWriterWins(<<Upload("my.pb", "fdsMy")>>)
    /\ response[TheReq] = 400

\* The JSON value request r's text parses to, and whether the text parses.
ParsedJson(r) == from_str(JsonMessage(payload[r]).text)
FieldCheckEnabled(r) == unwrap_or(payload[r].field_check, FALSE)

\* The name and the expected value are supplied, and the JSON value has a
\* top-level member of that name equal to the expected value.
MemberEquals(json_value, field_name, field_value_check) ==
    /\ field_name.some /\ field_value_check.some
    /\ json_value.t = "obj"
    /\ field_name.v \in DOMAIN json_value.v
    /\ json_value.v[field_name.v] = field_value_check.v

\* C15: with the field check enabled, validate_json_message_content succeeds
\* iff name and expected value are supplied and the parsed JSON value has a
\* top-level member of that name equal to the expected value; the request
\* is answered 200 only then, with or without a bound message.
C15_FieldCheckOnJsonValue ==
    \A r \in Reqs :
        (payload[r].kind = "validate" /\ FieldCheckEnabled(r)) =>
            /\ pc[r] = "validate" =>
                   (validate_json_message_content(
                        from_str(json_message[r]).v, payload[r].field_name,
                        payload[r].field_value_check).ok
                    <=> (from_str(json_message[r]).ok
                         /\ MemberEquals(from_str(json_message[r]).v, payload[r].field_name,
                                         payload[r].field_value_check)))
            /\ response[r] = 200 =>
                   (ParsedJson(r).ok
                    /\ MemberEquals(ParsedJson(r).v, payload[r].field_name,
                                    payload[r].field_value_check))
            /\ (response[r] = 400 /\ ~payload[r].protobuf.some) =>
                   ~(ParsedJson(r).ok
                     /\ MemberEquals(ParsedJson(r).v, payload[r].field_name,
                                     payload[r].field_value_check))

\* A request without a target message, so with no bound message, passed
\* the field check on key2 and was answered 200.
C15_Witness ==
    /\ payload[TheReq].kind = "validate"
    /\ ~payload[TheReq].protobuf.some
    /\ payload[TheReq].field_check = Some(TRUE)
    /\ payload[TheReq].field_name = Some("key2")
    /\ payload[TheReq].field_value_check = Some(JNum(Num42))
    /\ response[TheReq] = 200

\* Request r carries document J as a JSON-encoded string, to be unescaped.
CarriesEscaped(r, J) ==
    /\ payload[r].kind = "validate"
    /\ payload[r].json \in {EscapedOf(J), SpacedOf(J)}
    /\ unwrap_or(payload[r].json_escaped, TRUE)

\* The same request with J as the value of 'json' and json_escaped false.
Unescaped(body, J) == [body EXCEPT !.json = J, !.json_escaped = Some(FALSE)]

\* C16: a request whose 'json' is the JSON-encoded string of a document J,
\* with json_escaped true or absent, is validated as the request whose
\* 'json' is J with json_escaped false: the text it validates parses to J,
\* the string having been decoded once, and validate_json gives the same
\* result for both.
C16_EscapedEquivalent ==
    \A r \in Reqs : \A J \in Documents :
        (CarriesEscaped(r, J) /\ pc[r] \in {"rebuild", "validate"}) =>
            /\ from_str(json_message[r]) = [ok |-> TRUE, v |-> J]
            /\ from_str(JsonMessage(Unescaped(payload[r], J)).text) = [ok |-> TRUE, v |-> J]
            /\ pc[r] = "validate" =>
                   Validation(r) =
                       validate_json(descriptor_pool[r],
                                     JsonMessage(Unescaped(payload[r], J)).text,
                                     payload[r].protobuf, payload[r].field_check,
                                     payload[r].field_name, payload[r].field_value_check,
                                     enable_metrics)

\* The document is the string "RED", sent as the JSON-encoded string of its
\* text, and the request was validated (one decoding leaves the text "RED"
\* with its quotes, which parses).
C16_Witness ==
    /\ CarriesEscaped(TheReq, JStr(CharsRED))
    /\ pc[TheReq] = "validate"
    /\ json_message[TheReq] = to_string(JStr(CharsRED))
    /\ Validation(TheReq).ok

\* The attributes of request r's measurements: the target name, "only_json"
\* when none was given, and the state of the field check.
LabelsOf(r) ==
    Labels(unwrap_or(payload[r].protobuf, "only_json"), FieldCheckEnabled(r))

\* The number of measurements an instrument holds for an attribute set.
CountOf(instrument, l) == IF l \in DOMAIN instrument THEN instrument[l] ELSE 0

\* The requests validate_json has run for, and those whose JSON parsed.
Validated == {r \in Reqs : payload[r].kind = "validate" /\ response[r] \in {200, 400}}
ValidatedParsed == {r \in Validated : ParsedJson(r).ok}

\* C17: with metrics enabled the counter holds, for every attribute set, one
\* increment per validated request with these attributes whose JSON parsed,
\* whether the request was then answered 200 or 400, and none for a
\* request whose JSON did not parse.
C17_CounterOncePerParsedRequest ==
    enable_metrics =>
        /\ \A l \in DOMAIN request_counter : \E r \in ValidatedParsed : LabelsOf(r) = l
        /\ \A r \in ValidatedParsed :
               CountOf(request_counter, LabelsOf(r))
                   = Cardinality({q \in ValidatedParsed : LabelsOf(q) = LabelsOf(r)})
        /\ (ValidatedParsed = {}) => request_counter = EmptyMap

\* With metrics enabled, a request naming MyMessage whose JSON parsed and
\* then failed to bind was answered 400 and counted once.
C17_Witness ==
    /\ enable_metrics
    /\ payload[TheReq].kind = "validate"
    /\ payload[TheReq].protobuf = Some("MyMessage")
    /\ payload[TheReq].json = ObjKey2(JStr(CharsRED))
    /\ payload[TheReq].field_check = None
    /\ response[TheReq] = 400
    /\ request_counter = [l \in {Labels("MyMessage", FALSE)} |-> 1]

\* C18: with metrics enabled, every request that incremented the counter
\* also recorded one histogram observation with the same attributes,
\* whether it was answered 200 or 400: the histogram holds as many
\* observations as the counter holds increments.
C18_HistogramOncePerCountedRequest ==
    enable_metrics =>
        /\ DOMAIN duration_histogram = DOMAIN request_counter
        /\ \A l \in DOMAIN request_counter :
               CountOf(duration_histogram, l) = request_counter[l]

\* The file names of a store in ascending key order, and the build that
\* merges the entries of a store in that order, stopping at the first entry
\* that fails.
AscendingFileNames == <<"all.pb", "my.pb">>
RECURSIVE MergeInOrder(_, _, _)
MergeInOrder(pool, map, names) ==
    IF names = <<>> THEN [ok |-> TRUE, pool |-> pool]
    ELSE IF Head(names) \notin DOMAIN map THEN MergeInOrder(pool, map, Tail(names))
    ELSE LET e == RebuildEntry(pool, map[Head(names)])
         IN IF e.ok THEN MergeInOrder(e.pool, map, Tail(names)) ELSE e
AscendingBuild(map) == MergeInOrder(DescriptorPoolDefault, map, AscendingFileNames)

\* The build of request r's pool is over: it succeeded, or it failed.
BuildSucceeded(r) == pc[r] = "validate"
BuildFailed(r) == pc[r] = "done" /\ response[r] = 500

\* C19: the build of the pool is a function of the store's content: it ends
\* as the merge of the entries in ascending key order ends, with the same
\* pool when that merge succeeds and with a failure when it fails, whatever
\* the order the map iterates in, also when one entry imports a file that
\* another entry defines.
C19_BuildIsAscendingMerge ==
    /\ BuildSucceeded(TheReq) =>
           /\ AscendingBuild(descriptor_map).ok
           /\ descriptor_pool[TheReq] = AscendingBuild(descriptor_map).pool
    /\ BuildFailed(TheReq) => ~AscendingBuild(descriptor_map).ok

\* Request r's pool holds every entry of the snapshot it was built from:
\* each entry decodes, and its file is in the pool together with the files
\* it imports.
WholePool(r) ==
    \A f \in DOMAIN snap[r] :
        LET fds == DecodeFileDescriptorSet(snap[r][f])
        IN /\ fds.ok
           /\ fds.file \in DOMAIN descriptor_pool[r].files
           /\ descriptor_pool[r].files[fds.file] = fds
           /\ fds.deps \subseteq DOMAIN descriptor_pool[r].files

\* C20: a pool build that meets an entry that fails to decode or to link
\* ends with an error and no pool: the request is answered 500 and nothing
\* is measured; validate_json (lookup, bind, serialize, field check) runs
\* only with a pool that holds every entry of the snapshot.
C20_FailedBuildAnswers500 ==
    [][\A r \in Reqs :
          payload[r].kind = "validate" =>
              /\ (pc[r] = "rebuild" /\ pc'[r] = "done") =>
                     /\ \E f \in (DOMAIN descriptor_map) \ (DOMAIN snap[r]) :
                            ~RebuildEntry(descriptor_pool[r], descriptor_map[f]).ok
                     /\ response'[r] = 500
                     /\ descriptor_pool'[r] = DescriptorPoolDefault
                     /\ UNCHANGED <<request_counter, duration_histogram>>
              /\ (pc[r] = "rebuild" /\ pc'[r] = "validate") =>
                     /\ snap[r] = descriptor_map
                     /\ WholePool(r)
              /\ (pc[r] = "validate" /\ pc'[r] = "done") =>
                     /\ WholePool(r)
                     /\ response'[r] \in {200, 400}
      ]_vars

\* A request naming MyMessage was answered 500 over a store whose only
\* entry is no FileDescriptorSet, and nothing was measured.
C20_Witness ==
    /\ payload[TheReq].kind = "validate"
    /\ payload[TheReq].protobuf = Some("MyMessage")
    /\ descriptor_map = LastWriterWins(<<Upload("my.pb", "junk")>>)
    /\ enable_metrics
    /\ response[TheReq] = 500
    /\ request_counter = EmptyMap

(***************************************************************************)
(* The handlers under the scheduling of the runtime: the semaphore is      *)
(* built with any permit count from 1, and a handler that can take its     *)
(* next step is eventually polled.                                         *)
(***************************************************************************)
\* AppState.semaphore is Semaphore::new(n) for the configured permit count.
LiveInit ==
    /\ \E n \in 1..NumPermits : permits = n
    /\ pc = [r \in Reqs |-> "new"]
    /\ payload = [r \in Reqs |-> NoPayload]
    /\ response = [r \in Reqs |-> 0]
    /\ closed = FALSE
    /\ readers = {}
    /\ writers = {}
    /\ descriptor_map = EmptyMap
    /\ file_content = [r \in Reqs |-> ""]
    /\ json_message = [r \in Reqs |-> Chars(<<>>)]
    /\ descriptor_pool = [r \in Reqs |-> DescriptorPoolDefault]
    /\ snap = [r \in Reqs |-> EmptyMap]
    /\ snapLen = [r \in Reqs |-> 0]
    /\ ackedBefore = [r \in Reqs |-> {}]
    /\ writeLog = <<>>
    /\ enable_metrics = TRUE
    /\ request_counter = EmptyMap
    /\ duration_histogram = EmptyMap
    /\ BindIdle
    /\ ProducerIdle

\* The steps of request r's handler task.
Handler(r) ==
    \/ AcquirePermit(r)
    \/ AcquireFails(r)
    \/ LoadDecodeFails(r)
    \/ LoadAcquireWrite(r)
    \/ LoadInsert(r)
    \/ ValAcquireRead(r)
    \/ \E f \in FileNames : ValRebuildEntry(r, f)
    \/ ValRebuildDone(r)
    \/ ValValidate(r)

\* The tokio runtime polls every task that is ready to run.
Fairness == \A r \in Reqs : WF_vars(Handler(r))

\* The requests that arrive: an upload of a descriptor, of bytes that are no
\* descriptor set, of a file_content that is no base64, and a validation.
LiveRequests ==
    { LoadDescriptorRequest("my.pb", "ZmRzTXk="),
      LoadDescriptorRequest("my.pb", "anVuaw=="),
      LoadDescriptorRequest("all.pb", "%%%"),
      ValidationRequest(Some("MyMessage"), ObjKey2(JNum(Num42)), Some(FALSE), None, None, None) }

LiveNext ==
    \/ \E r \in Reqs : \E body \in LiveRequests : Arrive(r, body)
    \/ SemaphoreClose
    \/ \E r \in Reqs : Handler(r)

LiveSpec == LiveInit /\ [][LiveNext]_vars /\ Fairness

\* Every permit is held.
Saturated == permits = 0

\* C21: while every permit is held, a request at the semaphore takes no
\* step but to be answered 503; and every request that has arrived is
\* eventually answered, also one that arrived while every permit was held
\* (with one permit and two validations, both are answered).
C21_EveryRequestAnswered ==
    /\ [][\A r \in Reqs :
             (Saturated /\ pc[r] = "acquire" /\ pc'[r] # "acquire") =>
                 response'[r] = 503]_vars
    /\ \A r \in Reqs : (pc[r] = "acquire") ~> (response[r] # 0)

\* One permit: a validation holds it and the read guard, and a second
\* validation waits at the semaphore.
C21_Witness ==
    /\ Saturated
    /\ \E r, q \in Reqs :
          /\ payload[r].kind = "validate" /\ pc[r] = "rebuild" /\ r \in readers
          /\ payload[q].kind = "validate" /\ pc[q] = "acquire"
    /\ Cardinality(InFlight) = 1

(***************************************************************************)
(* The descriptor producer (config-producer-proto/src/main.rs): in each    *)
(* iteration of its loop it compiles the .proto files of the input         *)
(* directory with protoc and posts each descriptor set to the server's     *)
(* /load_descriptor; in loop mode it sleeps and starts over.               *)
(***************************************************************************)
\* Iterations of the loop the model follows.
MaxIterations == 3
\* Modification times a file takes (it starts at 1).
MaxModified == 2

\* HashMap::get
MapGet(map, k) == IF k \in DOMAIN map THEN Some(map[k]) ELSE None

\* map.entry(k).or_insert(v): the value of an existing key is kept.
EntryOrInsert(map, k, v) == IF k \in DOMAIN map THEN map ELSE Put(map, k, v)

\* The descriptor set protoc writes for a file as it is at a modification
\* time, read back by fs::read.
DescriptorSetOut(f, modified_time) == [proto |-> f, version |-> modified_time]

ProducerInit ==
    /\ ServerInit
    /\ BindIdle
    /\ producer_pc = "start"
    /\ loop_mode \in BOOLEAN
    /\ iteration = 1
    /\ modified = [f \in ProtoFiles |-> 1]
    /\ protobuf_definitions = EmptyMap
    /\ file_timestamps = EmptyMap
    /\ scanned = {}
    /\ sent = {}
    /\ processedAt = [f \in ProtoFiles |-> 0]
    /\ uploadedAt = [f \in ProtoFiles |-> 0]
    /\ protoc_runs = [f \in ProtoFiles |-> 0]
    /\ posts = [f \in ProtoFiles |-> 0]

\* The file is saved by its author: its modification time advances.
Touch(f) ==
    /\ modified[f] < MaxModified
    /\ modified' = [modified EXCEPT ![f] = modified[f] + 1]
    /\ UNCHANGED <<producer_pc, loop_mode, iteration, protobuf_definitions,
                   file_timestamps, scanned, sent, processedAt, uploadedAt,
                   protoc_runs, posts, serverVars, bindVars, metricVars>>

\* main.rs:55-71: the head of the loop body; both maps are created here.
IterationStart ==
    /\ producer_pc = "start"
    /\ protobuf_definitions' = EmptyMap
    /\ file_timestamps' = EmptyMap
    /\ scanned' = {}
    /\ sent' = {}
    /\ producer_pc' = "load"
    /\ UNCHANGED <<loop_mode, iteration, modified, processedAt, uploadedAt,
                   protoc_runs, posts, serverVars, bindVars, metricVars>>

\* load_proto_files, main.rs:190-216, one file of its loop: when the
\* recorded time differs from the file's, process_proto_file (248-278) runs
\* protoc, which succeeds or fails; on success the definition is entered
\* with or_insert and the time is recorded.
LoadFile(f) ==
    /\ producer_pc = "load"
    /\ f \in ProtoFiles \ scanned
    /\ scanned' = scanned \cup {f}
    /\ IF MapGet(file_timestamps, f) # Some(modified[f])
       THEN /\ protoc_runs' = [protoc_runs EXCEPT ![f] = protoc_runs[f] + 1]
            /\ \E compiled \in BOOLEAN :
                  IF compiled
                  THEN /\ protobuf_definitions' =
                              EntryOrInsert(protobuf_definitions, f,
                                  [bytes |-> DescriptorSetOut(f, modified[f]),
                                   at |-> modified[f]])
                       /\ file_timestamps' = Put(file_timestamps, f, modified[f])
                       /\ processedAt' = [processedAt EXCEPT ![f] = modified[f]]
                  ELSE UNCHANGED <<protobuf_definitions, file_timestamps, processedAt>>
       ELSE UNCHANGED <<protoc_runs, protobuf_definitions, file_timestamps, processedAt>>
    /\ UNCHANGED <<producer_pc, loop_mode, iteration, modified, sent, uploadedAt,
                   posts, serverVars, bindVars, metricVars>>

\* main.rs:218-219 and 77-84: load_proto_files returns Ok.
LoadDone ==
    /\ producer_pc = "load"
    /\ scanned = ProtoFiles
    /\ producer_pc' = "send"
    /\ UNCHANGED <<loop_mode, iteration, modified, protobuf_definitions,
                   file_timestamps, scanned, sent, processedAt, uploadedAt,
                   protoc_runs, posts, serverVars, bindVars, metricVars>>

\* The statuses /load_descriptor answers.
UploadStatuses == {200, 400, 503}

\* main.rs:86-109 and send_to_axum_server (139-173), one definition of the
\* send loop: the descriptor set is posted; the status is only logged.
SendFile(f) ==
    /\ producer_pc = "send"
    /\ f \in (DOMAIN protobuf_definitions) \ sent
    /\ sent' = sent \cup {f}
    /\ posts' = [posts EXCEPT ![f] = posts[f] + 1]
    /\ \E status \in UploadStatuses :
          uploadedAt' = IF status = 200
                        THEN [uploadedAt EXCEPT ![f] = protobuf_definitions[f].at]
                        ELSE uploadedAt
    /\ UNCHANGED <<producer_pc, loop_mode, iteration, modified, protobuf_definitions,
                   file_timestamps, scanned, processedAt, protoc_runs,
                   serverVars, bindVars, metricVars>>

\* main.rs:111-115: without loop mode main ends, with it main sleeps.
SendDone ==
    /\ producer_pc = "send"
    /\ sent = DOMAIN protobuf_definitions
    /\ producer_pc' = IF loop_mode THEN "sleep" ELSE "stopped"
    /\ UNCHANGED <<loop_mode, iteration, modified, protobuf_definitions,
                   file_timestamps, scanned, sent, processedAt, uploadedAt,
                   protoc_runs, posts, serverVars, bindVars, metricVars>>

\* main.rs:115 and 55: the sleep is over, the next iteration starts.
Wake ==
    /\ producer_pc = "sleep"
    /\ iteration < MaxIterations
    /\ iteration' = iteration + 1
    /\ producer_pc' = "start"
    /\ UNCHANGED <<loop_mode, modified, protobuf_definitions, file_timestamps,
                   scanned, sent, processedAt, uploadedAt, protoc_runs, posts,
                   serverVars, bindVars, metricVars>>

ProducerNext ==
    \/ \E f \in ProtoFiles : Touch(f)
    \/ IterationStart
    \/ \E f \in ProtoFiles : LoadFile(f)
    \/ LoadDone
    \/ \E f \in ProtoFiles : SendFile(f)
    \/ SendDone
    \/ Wake

ProducerSpec == ProducerInit /\ [][ProducerNext]_vars

\* C22: in loop mode, a file whose modification time is the one recorded at
\* its last successful processing is not compiled again, and when that
\* version was uploaded it is not uploaded again.
C22_UploadOnlyOnChange ==
    [][\A f \in ProtoFiles :
          (loop_mode /\ processedAt[f] = modified[f]) =>
              /\ protoc_runs'[f] = protoc_runs[f]
              /\ uploadedAt[f] = modified[f] => posts'[f] = posts[f]
      ]_vars

\* The pool that holds the descriptor set of every entry of a store.
PoolOfStore(map) ==
    LET sets == {DecodeFileDescriptorSet(map[f]) : f \in DOMAIN map}
    IN [files |-> [n \in {fds.file : fds \in sets} |->
                      CHOOSE fds \in sets : fds.file = n]]

\* What validate_json gives for request r's body over the store as it was
\* when r took its read guard.
ValidationAtSnapshot(r) ==
    validate_json(PoolOfStore(StoreAtSnapshot(r)), JsonMessage(payload[r]).text,
                  payload[r].protobuf, payload[r].field_check, payload[r].field_name,
                  payload[r].field_value_check, enable_metrics)

\* C23: a validation that has built its pool is answered as validate_json
\* answers its request over the store as it was when the read guard was
\* taken, whatever was uploaded since: the pool it holds stays the pool of
\* that store, and the status and the measurements are those of that store.
C23_SnapshotIsolation ==
    [][\A r \in Reqs :
          pc[r] = "validate" =>
              /\ descriptor_pool[r] = PoolOfStore(StoreAtSnapshot(r))
              /\ pc'[r] = "validate" =>
                     /\ descriptor_pool'[r] = descriptor_pool[r]
                     /\ StoreAtSnapshot(r)' = StoreAtSnapshot(r)
              /\ pc'[r] = "done" =>
                     /\ response'[r] = StatusOf(ValidationAtSnapshot(r))
                     /\ request_counter' =
                            Measure(request_counter, ValidationAtSnapshot(r).counted)
      ]_vars

\* A validation naming MyMessage built its pool from a store that held the
\* descriptor of MyMessage; an upload then replaced that entry by bytes that
\* are no descriptor set, and the validation was not answered yet.
C23_Witness ==
    \E r \in Reqs :
        /\ pc[r] = "validate"
        /\ payload[r].protobuf = Some("MyMessage")
        /\ StoreAtSnapshot(r) = LastWriterWins(<<Upload("my.pb", "fdsMy")>>)
        /\ descriptor_map = LastWriterWins(<<Upload("my.pb", "junk")>>)
        /\ Validation(r).ok

\* The steps of validate_json for request r, each as it ends when it is
\* run: the parse of the text, the lookup of the target, the bind of the
\* parsed value into a fresh message, its serialization, the field check.
ParseStep(r) == from_str(json_message[r])
LookupStep(r) == get_message_by_name(descriptor_pool[r], payload[r].protobuf.v)
BindStep(r) ==
    populate_dynamic_message(DynamicMessageNew(LookupStep(r).md), LookupStep(r).md,
                             ParseStep(r).v)
SerializeStep(r) == serialize_dynamic_message(BindStep(r).dm)
CheckStep(r) ==
    validate_json_message_content(ParseStep(r).v, payload[r].field_name,
                                  payload[r].field_value_check)

\* The steps for the target all succeed (there is none without a target).
TargetStepsOk(r) ==
    payload[r].protobuf.some =>
        /\ LookupStep(r).some
        /\ BindStep(r).ok
        /\ SerializeStep(r).ok

\* The errors of the field check.
CheckErrors ==
    {"value mismatch", "not found in the JSON", "Field name and value must be provided"}

\* C24: validate_json returns the error of the first step that fails, in
\* the order parse, then with a target lookup, bind, serialize, then with
\* the field check enabled the field check: a parse failure is the error
\* whatever else would fail; with a target, a lookup or bind failure is
\* the error also when the field check would fail; an error of the field
\* check is returned only when the check is enabled and the parse and the
\* steps for the target succeeded; and the call succeeds exactly when no
\* step that applies fails.
C24_FirstErrorInOrder ==
    \A r \in Reqs :
        pc[r] = "validate" =>
            \E res \in {Validation(r)} : \E parsed \in {ParseStep(r)} :
                /\ ~parsed.ok => res.err = "Failed to parse JSON"
                /\ parsed.ok =>
                      /\ (payload[r].protobuf.some /\ ~LookupStep(r).some) =>
                             res.err = "not found in pool"
                      /\ (payload[r].protobuf.some /\ LookupStep(r).some
                              /\ ~BindStep(r).ok) =>
                             res.err = BindStep(r).err
                      /\ (TargetStepsOk(r) /\ FieldCheckEnabled(r) /\ ~CheckStep(r).ok) =>
                             res.err = CheckStep(r).err
                      /\ res.ok <=>
                             /\ TargetStepsOk(r)
                             /\ FieldCheckEnabled(r) => CheckStep(r).ok
                /\ res.err \in CheckErrors =>
                      /\ parsed.ok
                      /\ FieldCheckEnabled(r)
                      /\ TargetStepsOk(r)

\* A request naming MyMessage whose document has a string for the int32
\* field key2 and whose field check expects another value: the bind and
\* the field check both fail, and the error is the bind's.
C24_Witness ==
    /\ pc[TheReq] = "validate"
    /\ payload[TheReq].protobuf = Some("MyMessage")
    /\ payload[TheReq].json = ObjKey2(JStr(CharsRED))
    /\ payload[TheReq].json_escaped = Some(FALSE)
    /\ FieldCheckEnabled(TheReq)
    /\ LookupStep(TheReq).some
    /\ ~BindStep(TheReq).ok
    /\ ~CheckStep(TheReq).ok
    /\ Validation(TheReq).err = BindStep(TheReq).err

(***************************************************************************)
(* Further properties of the binder (BindSpec).                            *)
(***************************************************************************)
\* A JSON value of the shape the binding table accepts for a kind, within
\* the range of the kind.
AcceptedInRange(fd, jv) ==
    CASE fd.kind \in FloatingKinds -> jv.t = "num"
      [] fd.kind \in Signed32Kinds -> IsInt(jv) /\ InI32Range(jv.v)
      [] fd.kind \in Signed64Kinds ->
            IsInt(jv) /\ (jv.v.k = "PosInt" => jv.v.w[4] < HalfLimb)
      [] fd.kind \in Unsigned32Kinds -> IsInt(jv) /\ InU32Range(jv.v)
      [] fd.kind \in UnsignedKinds -> IsInt(jv) /\ jv.v.k = "PosInt"
      [] fd.kind = "Bool" -> jv.t = "bool"
      [] fd.kind \in {"String", "Bytes"} -> jv.t = "str"
      [] fd.kind = "Enum" -> jv.t = "str" /\ jv.v \in DOMAIN EnumDescriptors[fd.ref]
      [] OTHER -> FALSE

\* The field holds the value the binding table converts the JSON value to.
HoldsConverted(fd, jv, value) ==
    CASE fd.kind = "Double" -> value = PV("F64", jv.v)
      [] fd.kind = "Float" -> value.t \in {"F32", "F64"}
      [] fd.kind \in Signed32Kinds ->
            value = PV("I32", IF jv.v.k = "NegInt"
                              THEN (jv.v.w[2] - LimbBase) * LimbBase + jv.v.w[1]
                              ELSE jv.v.w[2] * LimbBase + jv.v.w[1])
      [] fd.kind \in Signed64Kinds -> value = PV("I64", jv.v.w)
      [] fd.kind \in Unsigned32Kinds -> value = PV("U32", <<jv.v.w[1], jv.v.w[2]>>)
      [] fd.kind \in UnsignedKinds -> value = PV("U64", jv.v.w)
      [] fd.kind = "Bool" -> value = PV("Bool", jv.v)
      [] fd.kind = "String" -> value = PV("String", jv.v)
      [] fd.kind = "Bytes" -> value = PV("Bytes", as_bytes(jv.v))
      [] fd.kind = "Enum" -> value = PV("EnumNumber", EnumDescriptors[fd.ref][jv.v])

\* Every entry of the bound object names a singular field of a scalar or
\* enum kind and carries a value accepted for it.
AllEntriesAccepted ==
    /\ bindV.t = "obj"
    /\ DOMAIN bindV.v # {}
    /\ \A k \in DOMAIN bindV.v :
           /\ k \in DOMAIN BindMd.fields
           /\ BindMd.fields[k].card = "single"
           /\ AcceptedInRange(BindMd.fields[k], bindV.v[k])

\* C25: an object whose entries all carry a value of the accepted shape and
\* within range for their field binds successfully, and every such field
\* then holds the converted value: any number for Double and Float, an
\* in-range integer for the integer kinds, a boolean for Bool, a string
\* for String, its UTF-8 bytes for Bytes, the numeric tag of a defined name
\* for Enum.
C25_AcceptedValuesBind ==
    (Bound /\ AllEntriesAccepted) =>
        /\ bindRes.ok
        /\ \A k \in DOMAIN bindV.v :
               /\ k \in DOMAIN bindRes.dm.fields
               /\ HoldsConverted(BindMd.fields[k], bindV.v[k], bindRes.dm.fields[k])

\* The entries of the bound object whose key names a repeated or a map
\* field.
RepeatedOrMapEntries ==
    IF bindV.t # "obj" THEN {}
    ELSE {k \in DOMAIN bindV.v :
            k \in DOMAIN BindMd.fields /\ BindMd.fields[k].card \in {"list", "map"}}

\* C26: binding an object with a key that names a repeated or a map field
\* fails, whatever the value given for it, and that field is not set.
C26_RepeatedAndMapRefused ==
    Bound =>
        \A k \in RepeatedOrMapEntries :
            /\ ~bindRes.ok
            /\ k \notin DOMAIN bindRes.dm.fields

\* A JSON value binds against a message under the rules of the binding
\* table: it is an object, every key names a singular field, a scalar or
\* enum field carries an accepted value within range, and a message field
\* carries an object that binds against the field's message.
RECURSIVE BindsUnderRules(_, _)
BindsUnderRules(md, jv) ==
    /\ jv.t = "obj"
    /\ \A k \in DOMAIN jv.v :
           /\ k \in DOMAIN md.fields
           /\ md.fields[k].card = "single"
           /\ IF md.fields[k].kind = "Message"
              THEN BindsUnderRules(MessageDescriptors[md.fields[k].ref], jv.v[k])
              ELSE AcceptedInRange(md.fields[k], jv.v[k])

\* The entries of the bound object whose key names a singular message field.
MessageEntries ==
    {k \in EntriesOfKind({"Message"}) : BindMd.fields[k].card = "single"}

\* C27: for a message field the outer bind succeeds only if the nested
\* object binds under every rule of the binder against the field's message
\* (known keys, kinds, ranges), and then the field holds a message of that
\* type; when the nested object breaks a rule, the outer bind fails and the
\* field is not set.
C27_NestedBindsUnderEveryRule ==
    Bound =>
        \A k \in MessageEntries :
            /\ bindRes.ok =>
                   /\ BindsUnderRules(MessageDescriptors[BindMd.fields[k].ref], bindV.v[k])
                   /\ k \in DOMAIN bindRes.dm.fields
                   /\ bindRes.dm.fields[k].t = "Message"
                   /\ bindRes.dm.fields[k].v.desc = BindMd.fields[k].ref
            /\ ~BindsUnderRules(MessageDescriptors[BindMd.fields[k].ref], bindV.v[k]) =>
                   /\ ~bindRes.ok
                   /\ k \notin DOMAIN bindRes.dm.fields

\* C28: binding a top-level JSON value that is no object (null, a boolean,
\* a number, a string, an array) fails for every message descriptor, and
\* the message has no field set.
C28_NonObjectFails ==
    (Bound /\ bindV.t # "obj") =>
        /\ ~bindRes.ok
        /\ bindRes.err = "Expected a JSON object to populate DynamicMessage"
        /\ bindRes.dm = DynamicMessageNew(BindMd)

\* An array was bound against AllKinds, and the binder failed.
C28_Witness ==
    /\ Bound
    /\ bindM = "AllKinds"
    /\ bindV.t = "arr"
    /\ ~bindRes.ok

(***************************************************************************)
(* What a handler's step may touch (Spec).                                 *)
(***************************************************************************)
\* Request r is answered status in this step.
Answered(r, status) == response[r] = 0 /\ response'[r] = status

\* Request r takes a step of its handler.
Steps(r) == pc[r] # "new" /\ (pc'[r] # pc[r] \/ snap'[r] # snap[r])

\* C29: the store changes only in the step of an upload that answers 200;
\* no step of a validation, no upload answered 400 and no request answered
\* 503 changes it, and a request answered 503 has gone from the acquire
\* straight to its answer: it has built no pool, validated nothing, and
\* neither instrument has changed.
C29_UploadIsOnlyMutator ==
    [][/\ (descriptor_map' # descriptor_map \/ writeLog' # writeLog) =>
              \E r \in Reqs : /\ payload[r].kind = "load"
                              /\ pc[r] = "insert"
                              /\ Answered(r, 200)
       /\ \A r \in Reqs :
             /\ (payload[r].kind = "validate" /\ Steps(r)) =>
                    UNCHANGED <<descriptor_map, writeLog>>
             /\ (payload[r].kind = "load" /\ Answered(r, 400)) =>
                    UNCHANGED <<descriptor_map, writeLog>>
             /\ Answered(r, 503) =>
                    /\ UNCHANGED <<descriptor_map, writeLog>>
                    /\ UNCHANGED <<request_counter, duration_histogram>>
                    /\ pc[r] = "acquire"
                    /\ UNCHANGED <<json_message[r], descriptor_pool[r], snap[r]>>
                    /\ UNCHANGED <<permits, readers, writers>>
      ]_vars

\* The store holds a definition, one upload was answered 400 and another
\* request 503.
C29_Witness ==
    /\ descriptor_map # EmptyMap
    /\ \E r, q \in Reqs :
          /\ payload[r].kind = "load" /\ response[r] = 400
          /\ response[q] = 503

\* The requests that hold a permit.
PermitHolders ==
    {r \in Reqs : pc[r] \in {"decode", "unescape", "rebuild", "insert", "validate"}}

\* C30: a request holds a store guard only while it holds a permit, and a
\* request waiting for a permit holds none; a validation holds the read
\* guard exactly while it builds its pool, so not while validate_json
\* parses, binds, serializes and checks; an upload holds the write guard
\* exactly for its insert, with the decoded bytes in hand.  The guards are
\* taken and dropped in the steps that enter and leave these positions.
C30_LockDiscipline ==
    [][/\ \A r \in Reqs :
             /\ r \in readers \cup writers => r \in PermitHolders
             /\ pc[r] \in {"new", "acquire", "done"} => r \notin readers \cup writers
             /\ r \in readers <=> (payload[r].kind = "validate" /\ pc[r] = "rebuild")
             /\ pc[r] = "validate" => r \notin readers \cup writers
             /\ r \in writers <=> (payload[r].kind = "load" /\ pc[r] = "insert")
             /\ r \in writers =>
                    /\ base64_decode(payload[r].file_content).ok
                    /\ file_content[r] = base64_decode(payload[r].file_content).bytes
             /\ (r \notin readers /\ r \in readers') => pc[r] = "unescape"
             /\ (r \notin writers /\ r \in writers') => pc[r] = "decode"
             /\ (r \in writers /\ descriptor_map' # descriptor_map) => r \notin writers'
       /\ Cardinality(PermitHolders) = NumPermits - permits
      ]_vars

\* One validation runs validate_json with its pool built and no guard held
\* while an upload holds the write guard for its insert.
C30_Witness ==
    \E r, q \in Reqs :
        /\ payload[r].kind = "validate" /\ pc[r] = "validate"
        /\ descriptor_pool[r] # DescriptorPoolDefault
        /\ r \notin readers
        /\ q \in writers /\ pc[q] = "insert"

====
